---- MODULE Spec2Model ----
(***************************************************************************)
(* The SYSTIMER driver of esp-hal (src/esp-hal/src/timer/systimer.rs):     *)
(* counter units, comparators, alarms, the async wait, and the shared      *)
(* register locking.                                                       *)
(*                                                                         *)
(* A u64 is a sequence of four 16-bit limbs, most significant first, and a *)
(* u32 a sequence of two: the registers are 32 bits wide and the masks 52  *)
(* and 64 bits, which TLC's integers do not hold.  All arithmetic is done  *)
(* on limbs, with the carries the machine has.                             *)
(***************************************************************************)
EXTENDS Integers, Naturals, Sequences, FiniteSets, TLC

\* ------------------------------------------------------------ u64 / u32

\* One limb holds 16 bits.
Limb == 2^16

LimbMax == Limb - 1

Zero32 == <<0, 0>>

Zero64 == <<0, 0, 0, 0>>

\* ((hi as u64) << 32) | lo as u64
Join(hi, lo) == hi \o lo

\* (v >> 32) as u32
Hi32(v) == <<v[1], v[2]>>

\* (v & 0xFFFF_FFFF) as u32, and also `v as u32`
Lo32(v) == <<v[3], v[4]>>

\* v << 32 on a u64: the upper half is shifted out
Shl32(v) == <<v[3], v[4], 0, 0>>

\* x + y on u64: the wrapped sum and whether it overflowed
AddU64(x, y) ==
    LET s4 == x[4] + y[4]
        s3 == x[3] + y[3] + (s4 \div Limb)
        s2 == x[2] + y[2] + (s3 \div Limb)
        s1 == x[1] + y[1] + (s2 \div Limb)
    IN  [value |-> <<s1 % Limb, s2 % Limb, s3 % Limb, s4 % Limb>>,
         overflow |-> (s1 \div Limb) # 0]

\* x * k on u64 for a small factor k: the wrapped product and whether it overflowed
MulU64(x, k) ==
    LET p4 == x[4] * k
        p3 == x[3] * k + (p4 \div Limb)
        p2 == x[2] * k + (p3 \div Limb)
        p1 == x[1] * k + (p2 \div Limb)
    IN  [value |-> <<p1 % Limb, p2 % Limb, p3 % Limb, p4 % Limb>>,
         overflow |-> (p1 \div Limb) # 0]

\* x & !m for a mask m = 2^k - 1 (each limb of m is 2^j - 1)
AndNot(x, m) == [i \in DOMAIN x |-> x[i] - (x[i] % (m[i] + 1))]

\* x & m for a mask m = 2^k - 1: what a register field of that width keeps
AndMask(x, m) == [i \in DOMAIN x |-> x[i] % (m[i] + 1)]

IsZero(x) == \A i \in DOMAIN x : x[i] = 0

\* x <= y on limb sequences of the same length
RECURSIVE LeqFrom(_, _, _)
LeqFrom(x, y, i) ==
    IF i > Len(x) THEN TRUE
    ELSE IF x[i] < y[i] THEN TRUE
    ELSE IF x[i] > y[i] THEN FALSE
    ELSE LeqFrom(x, y, i + 1)

Leq(x, y) == LeqFrom(x, y, 1)

One64 == <<0, 0, 0, 1>>

\* ------------------------------------------------------- chip variants

\* cfg(esp32s2) is the variant with 64-bit registers ("wide"); every other
\* chip has 52-bit counters and comparators ("narrow").
Chips == {"narrow", "wide"}

\* SystemTimer::BIT_MASK: u64::MAX on esp32s2, 0xF_FFFF_FFFF_FFFF otherwise
BIT_MASK(c) ==
    IF c = "wide" THEN <<65535, 65535, 65535, 65535>>
    ELSE <<15, 65535, 65535, 65535>>

\* SystemTimer::PERIOD_MASK: 0x1FFF_FFFF on esp32s2, 0x3FF_FFFF otherwise
PERIOD_MASK(c) ==
    IF c = "wide" THEN <<0, 0, 8191, 65535>>
    ELSE <<0, 0, 1023, 65535>>

\* The width of the 32-bit half registers' fields: the high half of a value
\* register keeps BIT_MASK >> 32, the low half all 32 bits.
HiFieldMask(c) == Hi32(BIT_MASK(c))

LoFieldMask == <<65535, 65535>>

\* The crystal frequency in MHz that Clocks::xtal_freq() reports.
XtalFreqMHz == 40

\* const MULTIPLIER of ticks_per_second()
Multiplier(c) == IF c = "wide" THEN 2000000 ELSE 10000000 \div 25

\* SystemTimer::ticks_per_second()
ticks_per_second(c) == XtalFreqMHz * Multiplier(c)

\* SystemTimer::ticks_per_second() / 1_000_000
TicksPerUs(c) == ticks_per_second(c) \div 1000000

NUM_ALARMS == 3

Channels == 0 .. (NUM_ALARMS - 1)

\* blinky.rs: the cells of MpMcQueue, and the mask of a position
N == 8

MASK == N - 1

\* The values of an AtomicU8 / u8.
U8 == 256

\* ------------------------------------------------------------- state

VARIABLES
    chip,             \* the chip variant the driver is compiled for
    overflow_checks,  \* whether the build panics on integer overflow (debug) or wraps
    count,            \* the counter of unit 0, ticked by the hardware
    conf,             \* the CONF register shared by the comparators and units
    target_conf,      \* TARGETx_CONF of every comparator
    trgt,             \* TARGETx_HI / TARGETx_LO of every comparator
    last,             \* the last driver call: its arguments, result and register writes
    nops,             \* driver calls made so far
    nticks,           \* hardware ticks so far
    halted,           \* the program has panicked
    unit_value,       \* UNIT0_VALUE_HI / _LO: the counter as latched by the update strobe
    value_valid,      \* UNIT0_OP.value_valid
    update_req,       \* an update strobe the hardware has not served yet
    unitload,         \* UNIT0_LOAD_HI / _LO: the staging registers of set_count
    rd,               \* the read_count call of every context
    ld,               \* the set_count call of the unit's owner
    reloaded,         \* the value of the last completed set_count, until the counter moves
    cx,               \* the CONF update every execution context is making
    CONF_LOCK,        \* the context inside lock(&CONF_LOCK, ..), or "none"
    want,             \* per CONF bit, the value of the last update addressed to it
    int_ena,          \* INT_ENA: the interrupt-enable bit of every comparator
    int_raw,          \* INT_RAW: the raw interrupt status of every comparator
    bound,            \* the comparators whose interrupt has a handler bound and enabled
    INT_ENA_LOCK,     \* the context inside lock(&INT_ENA_LOCK, ..), or "none"
    WAKERS,           \* asynch::WAKERS: the waker each AtomicWaker holds, or "none"
    alarm_of,         \* the alarm (comparator channel) every waiting task waits on
    wt,               \* the wait() of every task
    hd,               \* the asynch handler running on core 0
    usr,              \* the enable_interrupt call of the task of core 1
    want_ena,         \* per INT_ENA bit, the value of the last update addressed to it
    latest,           \* per channel, the task that registered its waker last
    nfires,           \* comparator matches so far
    owner,            \* MULTICORE_LOCK.owner
    cs,               \* per core: its critical_section acquire / release and the tokens it holds
    unit0,            \* the borrow of unit 0 that FrozenUnit and its alarms hold: "none", "shared", "mut"
    frozen_unit,      \* a FrozenUnit of unit 0 exists
    built,            \* per comparator, the Alarm built from the FrozenUnit: "no", "live", "dropped"
    cmp,              \* per comparator: the period countdown of the hardware, and what it has matched since scheduled
    isr,              \* the interrupt handler running on the core, and how often each handler ran
    main,             \* the main program that sets the alarms up
    vector,           \* the interrupt vector table: what is bound to SYSTIMER_TARGETx
    HANDLERS,         \* HANDLERS of the esp32s2: the handler of every comparator, or "none"
    enabled_on,       \* per core and SYSTIMER_TARGETx: the priority it is enabled at, 0 if disabled
    binding,          \* per comparator, the last completed set_interrupt_handler call
    invoked,          \* the handler invocations of the last interrupt dispatch
    committed,        \* per comparator, the target latched by COMPx_LOAD (chips that have the register)
    st,               \* the set_target call in progress
    matched,          \* the last match of a comparator: the target it matched and the step of set_target
    at,               \* the actual_target call of the other context
    alarm_unit,       \* per comparator, the unit of the FrozenUnit its Alarm was built from: {u}, or {}
    count1,           \* the counter of unit 1 (chips that have the unit)
    RADIO_REFCOUNT,   \* radio::RADIO_REFCOUNT
    adc2,             \* who has claimed ADC2 (esp32): "free", "radio" or "adc"
    radio_up,         \* the radio hardware is initialised: init() succeeded and deinit() has not run since
    guards,           \* the RadioRefGuard values alive
    radio_log,        \* the RadioRefGuard::new and drop calls made, with the init / deinit each ran
    scheduler,        \* preempt::initialized()
    cpu_clock_ok,     \* Clocks::get().cpu_clock is at least 80 MHz
    buffer,           \* MpMcQueue::buffer: the sequence number of every cell
    dequeue_pos,      \* MpMcQueue::dequeue_pos
    enqueue_pos,      \* MpMcQueue::enqueue_pos
    inner             \* inner(): the call it is in, the statement of the call, its pos and seq

hwVars == <<chip, overflow_checks, count, conf, target_conf, trgt>>

apiVars == <<last, nops, nticks, halted>>

cntVars == <<unit_value, value_valid, update_req, unitload, rd, ld, reloaded>>

confVars == <<cx, CONF_LOCK, want>>

waitVars ==
    <<int_ena, int_raw, bound, INT_ENA_LOCK, WAKERS, alarm_of, wt, hd, usr, want_ena,
      latest, nfires>>

lockVars == <<owner, cs>>

frzVars == <<unit0, frozen_unit, built>>

fireVars == <<cmp, isr, main>>

irqVars == <<vector, HANDLERS, enabled_on, binding, invoked>>

commitVars == <<committed, st, matched, at>>

pairVars == <<alarm_unit, count1>>

radioVars == <<RADIO_REFCOUNT, adc2, radio_up, guards, radio_log, scheduler, cpu_clock_ok>>

queueVars == <<buffer, dequeue_pos, enqueue_pos, inner>>

sharedVars == <<confVars, waitVars, lockVars, frzVars, fireVars, irqVars, commitVars, pairVars, radioVars, queueVars>>

\* ------------------------------------------------------------ bounds

\* Driver calls in one behaviour of the alarm API specification.
MaxOps == 2

\* Hardware ticks in one behaviour of the alarm API specification.
MaxTicks == 1

\* --------------------------------------------------------- registers

Bit(b) == IF b THEN <<0, 1>> ELSE <<0, 0>>

\* The bits of CONF the driver writes (cfg(not(esp32s2))).
ConfBits ==
    {"target0_work_en", "target1_work_en", "target2_work_en",
     "timer_unit0_work_en", "timer_unit0_core0_stall_en", "timer_unit0_core1_stall_en",
     "timer_unit1_work_en", "timer_unit1_core0_stall_en", "timer_unit1_core1_stall_en"}

\* match self.channel() { 0 => target0_work_en, 1 => target1_work_en, 2 => target2_work_en }
WorkEnBit(ch) ==
    CASE ch = 0 -> "target0_work_en"
      [] ch = 1 -> "target1_work_en"
      [] ch = 2 -> "target2_work_en"

\* The register file the comparator methods work on, with the log of the
\* writes of the call in progress.
Regs == [cf |-> conf, tc |-> target_conf, tg |-> trgt, log |-> <<>>]

Wr(reg, val) == [reg |-> reg, val |-> val]

\* comp_load.write(|w| w.load().set_bit()), cfg(not(esp32s2))
comp_load(R, ch) ==
    IF chip = "wide" THEN R
    ELSE [R EXCEPT !.log = Append(@, Wr("comp_load", Bit(TRUE)))]

\* A set_enable that writes the register it should modify: every other field
\* of the register returns to zero.
set_enable_write(R, ch, enable) ==
    IF chip = "wide"
    THEN [R EXCEPT !.tc[ch] = [period_mode |-> FALSE, period |-> Zero32,
                               timer_unit_sel |-> FALSE, work_en |-> enable],
                   !.log = Append(@, Wr("work_en", Bit(enable)))]
    ELSE [R EXCEPT !.cf = [b \in ConfBits |-> b = WorkEnBit(ch) /\ enable],
                   !.log = Append(@, Wr("work_en", Bit(enable)))]

\* Comparator::set_enable
set_enable(R, ch, enable) ==
    IF chip = "wide"
    THEN [R EXCEPT !.tc[ch].work_en = enable,
                   !.log = Append(@, Wr("work_en", Bit(enable)))]
    ELSE [R EXCEPT !.cf[WorkEnBit(ch)] = enable,
                   !.log = Append(@, Wr("work_en", Bit(enable)))]

\* Comparator::is_enabled
is_enabled(R, ch) ==
    IF chip = "wide" THEN R.tc[ch].work_en ELSE R.cf[WorkEnBit(ch)]

\* A set_mode that writes TARGETx_CONF instead of modifying it: the other
\* fields of the register return to zero.
set_mode_write(R, ch, m) ==
    [R EXCEPT !.tc[ch] = [period_mode |-> (m = "Period"), period |-> Zero32,
                          timer_unit_sel |-> FALSE, work_en |-> FALSE],
              !.log = Append(@, Wr("period_mode", Bit(m = "Period")))]

\* Comparator::set_mode
set_mode(R, ch, m) ==
    [R EXCEPT !.tc[ch].period_mode = (m = "Period"),
              !.log = Append(@, Wr("period_mode", Bit(m = "Period")))]

\* Comparator::mode
mode(R, ch) == IF R.tc[ch].period_mode THEN "Period" ELSE "Target"

\* Comparator::set_period: the PERIOD field keeps the bits of PERIOD_MASK
set_period(R, ch, value) ==
    comp_load(
        [R EXCEPT !.tc[ch].period = AndMask(value, Lo32(PERIOD_MASK(chip))),
                  !.log = Append(@, Wr("period", value))],
        ch)

\* A set_target that writes TARGETx_LO and leaves TARGETx_HI as it is.
set_target_lo(R, ch, value) ==
    comp_load(
        [R EXCEPT !.tg[ch].lo = AndMask(Lo32(value), LoFieldMask),
                  !.log = Append(@, Wr("trgt_lo", Lo32(value)))],
        ch)

\* Comparator::set_target: TARGETx_HI keeps the bits of BIT_MASK >> 32
set_target(R, ch, value) ==
    comp_load(
        [R EXCEPT !.tg[ch] = [hi |-> AndMask(Hi32(value), HiFieldMask(chip)),
                              lo |-> AndMask(Lo32(value), LoFieldMask)],
                  !.log = @ \o <<Wr("trgt_hi", Hi32(value)), Wr("trgt_lo", Lo32(value))>>],
        ch)

\* Comparator::actual_target
actual_target(R, ch) == Join(R.tg[ch].hi, R.tg[ch].lo)

\* Unit::read_count with nothing running between its reads: the update
\* strobe latches the counter, and low, high, low are read from the latch.
read_count_quiet(cnt) ==
    LET lo_prev == Lo32(cnt)
        hi      == Hi32(cnt)
        lo      == Lo32(cnt)
    IN  Join(hi, lo)

\* The outcome of a call: the registers after it, its result, the tick count
\* it computed and the value it handed to set_target / set_period.
Outcome(R, result, hasTicks, ticks, hasProg, prog, kind) ==
    [R |-> R, result |-> result, has_ticks |-> hasTicks, ticks |-> ticks,
     has_prog |-> hasProg, programmed |-> prog, kind |-> kind]

\* A load_value that writes the period register before it checks the value.
load_value_writes_first(R, ch, us, cnt) ==
    LET ticks == MulU64(us, TicksPerUs(chip)).value
    IN  Outcome(set_period(R, ch, Lo32(ticks)), "InvalidTimeout", TRUE, ticks,
                FALSE, Zero64, "none")

\* Alarm::load_value (Timer::load_value for Alarm)
load_value(R, ch, us, cnt) ==
    LET m    == mode(R, ch)
        prod == MulU64(us, TicksPerUs(chip))
        ticks == prod.value
    IN  IF prod.overflow /\ overflow_checks
        THEN Outcome(R, "Panic", FALSE, Zero64, FALSE, Zero64, "none")
        ELSE IF m = "Period"
        THEN IF ~IsZero(AndNot(ticks, PERIOD_MASK(chip)))
             THEN Outcome(R, "InvalidTimeout", TRUE, ticks, FALSE, Zero64, "none")
             ELSE Outcome(set_mode(set_mode(set_period(R, ch, Lo32(ticks)), ch, "Target"),
                                   ch, "Period"),
                          "Ok", TRUE, ticks, TRUE, ticks, "period")
        ELSE IF chip # "wide" /\ ~IsZero(AndNot(ticks, BIT_MASK(chip)))
             THEN Outcome(R, "InvalidTimeout", TRUE, ticks, FALSE, Zero64, "none")
             ELSE LET v == read_count_quiet(cnt)
                      t == AddU64(v, ticks)
                  IN  IF t.overflow /\ overflow_checks
                      THEN Outcome(R, "Panic", TRUE, ticks, FALSE, Zero64, "none")
                      ELSE Outcome(set_target(R, ch, t.value), "Ok", TRUE, ticks,
                                   TRUE, t.value, "target")

\* An enable_auto_reload that leaves the comparator in Target mode.
enable_auto_reload_target(R, ch, auto_reload) == set_mode(R, ch, "Target")

\* Alarm::enable_auto_reload
enable_auto_reload(R, ch, auto_reload) ==
    set_mode(R, ch, IF auto_reload THEN "Period" ELSE "Target")

\* Alarm::start
start(R, ch) == set_enable(R, ch, TRUE)

\* A stop that leaves the comparator enabled.
stop_skipped(R, ch) == R

\* Alarm::stop
stop(R, ch) == set_enable(R, ch, FALSE)

\* Alarm::is_running
is_running(R, ch) == is_enabled(R, ch)

\* ------------------------------------------------- the alarm API: inputs

\* The comparators the application has built alarms from (the hil-test's
\* Context holds comparator0 and comparator1).
Alarms == {0, 1}

\* Durations in microseconds handed to load_value: around the period and
\* target masks of both variants, and past u64 when multiplied.
Durations ==
    { <<0, 0, 0, 1>>,                 \* 1 us
      <<0, 0, 63, 65535>>,            \* 2^22 - 1: 16 ticks/us give 2^26 - 16
      <<0, 0, 64, 0>>,                \* 2^22: 16 ticks/us give 2^26 = PERIOD_MASK + 1
      <<0, 0, 102, 26214>>,           \* 6710886: 80 ticks/us give 2^29 - 32
      <<0, 0, 102, 26215>>,           \* 6710887: 80 ticks/us give 2^29 + 48
      <<0, 65535, 65535, 65535>>,     \* 2^48 - 1: 16 ticks/us give 2^52 - 16
      <<1, 0, 0, 0>>,                 \* 2^48: 16 ticks/us give 2^52 = BIT_MASK + 1
      <<819, 13107, 13107, 13107>>,   \* (2^64 - 1) / 80: 80 ticks/us give 2^64 - 16
      <<4096, 0, 0, 0>> }             \* 2^60: the product is a multiple of 2^64

\* Values handed to Comparator::set_target directly.
TargetValues ==
    { <<15, 65535, 65535, 65535>>,    \* 2^52 - 1
      <<16, 0, 0, 0>> }               \* 2^52

\* Values handed to Comparator::set_period directly.
PeriodValues ==
    { <<1023, 65535>>,                \* 2^26 - 1
      <<1024, 0>>,                    \* 2^26
      <<8192, 0>> }                   \* 2^29

\* The counter when the driver is constructed: SystemTimer::new does not
\* reset the peripheral, the counter has been running since boot.
InitCounts ==
    { <<0, 0, 0, 0>>,
      <<0, 0, 65535, 65535>> }        \* 2^32 - 1

\* The registers right after the peripheral is claimed: comparators stopped,
\* in Target mode, comparing against unit 0, which is counting.
InitConf == [b \in ConfBits |-> b = "timer_unit0_work_en"]

InitTargetConf ==
    [ch \in Channels |->
        [period_mode |-> FALSE, period |-> Zero32, timer_unit_sel |-> FALSE,
         work_en |-> FALSE]]

InitTrgt == [ch \in Channels |-> [hi |-> Zero32, lo |-> Zero32]]

\* No driver call has been made yet.
NoCall ==
    [op |-> "none", ch |-> 0, arg |-> Zero64, flag |-> FALSE, mode |-> "Target",
     result |-> "none", has_ticks |-> FALSE, ticks |-> Zero64,
     has_prog |-> FALSE, programmed |-> Zero64, kind |-> "none",
     v |-> Zero64, writes |-> <<>>, running |-> FALSE,
     before |-> [cf |-> InitConf, tc |-> InitTargetConf, tg |-> InitTrgt]]

InitHw ==
    /\ chip \in Chips
    /\ overflow_checks \in BOOLEAN
    /\ count \in InitCounts
    /\ conf = InitConf
    /\ target_conf = InitTargetConf
    /\ trgt = InitTrgt

\* The contexts that read the counter: a task, and an interrupt handler or the
\* other core (SystemTimer::now conjures unit 0 from any context).
Readers == {"task", "other"}

IdleReader ==
    [pc |-> "idle", lo |-> Zero32, hi |-> Zero32, lo_prev |-> Zero32,
     result |-> Zero64, held |-> {}, fresh |-> FALSE, passes |-> 0, calls |-> 0]

IdleLoader == [pc |-> "idle", value |-> Zero64, calls |-> 0]

\* No read_count or set_count is in progress.
InitCnt ==
    /\ unit_value = [hi |-> Zero32, lo |-> Zero32]
    /\ value_valid = FALSE
    /\ update_req = FALSE
    /\ unitload = [hi |-> Zero32, lo |-> Zero32]
    /\ rd = [r \in Readers |-> IdleReader]
    /\ ld = IdleLoader
    /\ reloaded = [valid |-> FALSE, value |-> Zero64]

InitApi ==
    /\ last = NoCall
    /\ nops = 0
    /\ nticks = 0
    /\ halted = FALSE

\* The execution contexts that share the peripheral: the task on each core
\* and the interrupt handlers of core 0.
Contexts == {"core0", "isr0", "core1"}

NoOp == [kind |-> "none", n |-> 0, flag |-> FALSE, config |-> "none"]

IdleContext == [pc |-> "idle", op |-> NoOp, snap |-> InitConf, calls |-> 0]

\* No update of CONF is in progress and nothing holds CONF_LOCK.
\* The cores of a multi-core chip (enum Cpu).
Cores == {"ProCpu", "AppCpu"}

\* multicore::UNUSED_THREAD_ID_VALUE: a value get_raw_core() never returns
UNUSED_THREAD_ID_VALUE == 1

\* multicore::thread_id: get_raw_core() is PRID & 0x2000
thread_id(c) == IF c = "ProCpu" THEN 0 ELSE 8192

\* The restore state acquire() returns: the interrupt level of PS it found and
\* bit 31, the reentry flag.
Token(level, flag) == [ps |-> level, reentry |-> flag]

\* A core outside acquire() and release(), interrupts unmasked, holding no token.
\* `base` is the interrupt level the core runs at outside critical sections.
IdleCore ==
    [pc |-> "idle", ps |-> 0, tkn |-> Token(0, FALSE), held |-> <<>>,
     kind |-> "none", spun |-> FALSE, released |-> "none", base |-> 0]

\* A comparator nothing was scheduled on.
IdleComparator ==
    [sched |-> FALSE, us |-> 0, left |-> 0, elapsed |-> 0, matches |-> 0, seen |-> 0]

\* No handler running, none has run.
IdleIsr == [pc |-> "idle", ch |-> 0, runs |-> [ch \in Channels |-> 0]]

InitShared ==
    /\ cx = [c \in Contexts |-> IdleContext]
    /\ CONF_LOCK = "none"
    /\ want = InitConf
    /\ owner = UNUSED_THREAD_ID_VALUE
    /\ cs = [c \in Cores |-> IdleCore]
    /\ unit0 = "none"
    /\ frozen_unit = FALSE
    /\ built = [ch \in Channels |-> "no"]
    /\ cmp = [ch \in Channels |-> IdleComparator]
    /\ isr = IdleIsr
    /\ main = [pc |-> "bind0", handled |-> TRUE, setup_ticks |-> 0, run_ticks |-> 0, clears |-> 0]

\* No set_target call is in progress.
IdleSetTarget == [pc |-> "idle", ch |-> 0, value |-> Zero64, old |-> Zero64, calls |-> 0, ticks |-> 0]

\* No actual_target call has been made.
IdleActualTarget ==
    [pc |-> "idle", ch |-> 0, hi |-> Zero32, result |-> Zero64, quiet |-> FALSE,
     expect |-> Zero64, seen |-> 0, reads |-> 0]

\* No comparator has matched.
NoMatch == [ch |-> 0, target |-> Zero64, pc |-> "none", old |-> Zero64, value |-> Zero64]

\* No set_interrupt_handler call has been made for a comparator.
NoBinding == [core |-> "none", handler |-> "none", priority |-> 0]

\* No interrupt of the comparators has been dispatched.
NoDispatch == [core |-> "none", ch |-> 0, raw |-> FALSE, calls |-> {}]

\* The tasks of the executor of core 0 that call wait().
Waiters == {"a", "b"}

IdleWaiter ==
    [pc |-> "init", snap |-> [ch \in Channels |-> FALSE], woken |-> FALSE,
     fired_at_poll |-> FALSE, superseded |-> FALSE, handled |-> FALSE, is_set |-> FALSE,
     polls |-> 0]

IdleHandler ==
    [pc |-> "idle", ch |-> 0, snap |-> [ch \in Channels |-> FALSE], woke |-> "none",
     latest |-> "none", waited |-> FALSE, runs |-> 0]

IdleUser ==
    [pc |-> "idle", state |-> FALSE, snap |-> [ch \in Channels |-> FALSE], calls |-> 0]

\* No interrupt is enabled or pending, no handler is bound, nobody waits.
InitWait ==
    /\ int_ena = [ch \in Channels |-> FALSE]
    /\ int_raw = [ch \in Channels |-> FALSE]
    /\ bound = [ch \in Channels |-> FALSE]
    /\ INT_ENA_LOCK = "none"
    /\ WAKERS = [ch \in Channels |-> "none"]
    /\ wt = [w \in Waiters |-> IdleWaiter]
    /\ hd = IdleHandler
    /\ usr = IdleUser
    /\ want_ena = [ch \in Channels |-> FALSE]
    /\ latest = [ch \in Channels |-> "none"]
    /\ nfires = 0
    /\ vector = [ch \in Channels |-> "none"]
    /\ HANDLERS = [ch \in Channels |-> "none"]
    /\ enabled_on = [c \in Cores |-> [ch \in Channels |-> 0]]
    /\ binding = [ch \in Channels |-> NoBinding]
    /\ invoked = NoDispatch
    /\ committed = InitTrgt
    /\ st = IdleSetTarget
    /\ matched = NoMatch
    /\ at = IdleActualTarget
    /\ alarm_unit = [ch \in Alarms |-> {}]
    /\ count1 = Zero64
    /\ RADIO_REFCOUNT = 0
    /\ adc2 = "free"
    /\ radio_up = FALSE
    /\ guards = 0
    /\ radio_log = <<>>
    /\ scheduler = FALSE
    /\ cpu_clock_ok = FALSE
    /\ buffer = [i \in 0 .. (N - 1) |-> i]
    /\ dequeue_pos = 0
    /\ enqueue_pos = 0
    /\ inner = [op |-> "enqueue", pc |-> "load_pos", pos |-> 0, seq |-> 0, returned |-> "none"]

\* Every task waits on an alarm of its own.
OwnAlarms == alarm_of = [w \in Waiters |-> IF w = "a" THEN 0 ELSE 1]

\* ------------------------------------------------ the alarm API: actions

\* A call that cannot fail: the registers after it and what it was.
Commit(R, call) ==
    /\ conf' = R.cf
    /\ target_conf' = R.tc
    /\ trgt' = R.tg
    /\ last' = [call EXCEPT !.writes = R.log,
                            !.before = [cf |-> conf, tc |-> target_conf, tg |-> trgt]]
    /\ nops' = nops + 1
    /\ UNCHANGED <<queueVars, radioVars, pairVars, commitVars, irqVars, fireVars, frzVars, lockVars, chip, overflow_checks, count, nticks>>
    /\ UNCHANGED <<cntVars, sharedVars>>

CanCall == ~halted /\ nops < MaxOps

\* The counter counts up and wraps at its width.
NextCount(cnt) == AndMask(AddU64(cnt, One64).value, BIT_MASK(chip))

Tick ==
    /\ ~halted
    /\ nticks < MaxTicks
    /\ count' = NextCount(count)
    /\ nticks' = nticks + 1
    /\ UNCHANGED <<queueVars, radioVars, pairVars, commitVars, irqVars, fireVars, frzVars, lockVars, chip, overflow_checks, conf, target_conf, trgt, last, nops, halted>>
    /\ UNCHANGED <<cntVars, sharedVars>>

Start(ch) ==
    /\ CanCall
    /\ Commit(start(Regs, ch),
              [NoCall EXCEPT !.op = "start", !.ch = ch, !.mode = mode(Regs, ch),
                             !.running = is_running(Regs, ch)])
    /\ UNCHANGED halted

Stop(ch) ==
    /\ CanCall
    /\ Commit(stop(Regs, ch),
              [NoCall EXCEPT !.op = "stop", !.ch = ch, !.mode = mode(Regs, ch),
                             !.running = is_running(Regs, ch)])
    /\ UNCHANGED halted

EnableAutoReload(ch, auto_reload) ==
    /\ CanCall
    /\ Commit(enable_auto_reload(Regs, ch, auto_reload),
              [NoCall EXCEPT !.op = "enable_auto_reload", !.ch = ch,
                             !.flag = auto_reload, !.mode = mode(Regs, ch),
                             !.running = is_running(Regs, ch)])
    /\ UNCHANGED halted

LoadValue(ch, us) ==
    /\ CanCall
    /\ LET o == load_value(Regs, ch, us, count)
       IN  /\ Commit(o.R,
                     [NoCall EXCEPT !.op = "load_value", !.ch = ch, !.arg = us,
                                    !.mode = mode(Regs, ch), !.result = o.result,
                                    !.has_ticks = o.has_ticks, !.ticks = o.ticks,
                                    !.has_prog = o.has_prog,
                                    !.programmed = o.programmed, !.kind = o.kind,
                                    !.v = count,
                                    !.running = is_running(Regs, ch)])
           /\ halted' = (o.result = "Panic")

SetTarget(ch, value) ==
    /\ CanCall
    /\ Commit(set_target(Regs, ch, value),
              [NoCall EXCEPT !.op = "set_target", !.ch = ch, !.arg = value,
                             !.mode = mode(Regs, ch), !.has_prog = TRUE,
                             !.programmed = value, !.kind = "target",
                             !.running = is_running(Regs, ch)])
    /\ UNCHANGED halted

SetPeriod(ch, value) ==
    /\ CanCall
    /\ Commit(set_period(Regs, ch, value),
              [NoCall EXCEPT !.op = "set_period", !.ch = ch,
                             !.arg = Join(Zero32, value),
                             !.mode = mode(Regs, ch), !.has_prog = TRUE,
                             !.programmed = Join(Zero32, value), !.kind = "period",
                             !.running = is_running(Regs, ch)])
    /\ UNCHANGED halted

Init == InitHw /\ InitApi /\ InitCnt /\ InitShared /\ InitWait /\ OwnAlarms

Next ==
    \/ Tick
    \/ \E ch \in Alarms : Start(ch)
    \/ \E ch \in Alarms : Stop(ch)
    \/ \E ch \in Alarms, r \in BOOLEAN : EnableAutoReload(ch, r)
    \/ \E ch \in Alarms, us \in Durations : LoadValue(ch, us)
    \/ \E ch \in Alarms, v \in TargetValues : SetTarget(ch, v)
    \/ \E ch \in Alarms, v \in PeriodValues : SetPeriod(ch, v)

vars == <<hwVars, apiVars, cntVars, sharedVars>>

Spec == Init /\ [][Next]_vars

\* ------------------------------------------------ claims: the alarm API

\* The mask a tick count is checked against in the mode the call found.
ModeMask(m) == IF m = "Period" THEN PERIOD_MASK(chip) ELSE BIT_MASK(chip)

\* C2: for every tick count t that load_value computes, the call returns Ok
\* if and only if t fits the mask of the alarm's current mode (PERIOD_MASK in
\* Period mode, BIT_MASK in Target mode).
C2_OkIffTicksFit ==
    (last.op = "load_value" /\ last.has_ticks)
        => ((last.result = "Ok") <=> Leq(last.ticks, ModeMask(last.mode)))

\* The positions of the mode-register writes in a call's register writes.
ModeWrites(w) == {i \in DOMAIN w : w[i].reg = "period_mode"}

\* The call wrote the mode register exactly twice, Target and then Period,
\* with no other register write between the two.
TargetThenPeriod(w) ==
    \E i \in DOMAIN w :
        /\ i + 1 \in DOMAIN w
        /\ w[i] = Wr("period_mode", Bit(FALSE))
        /\ w[i + 1] = Wr("period_mode", Bit(TRUE))
        /\ ModeWrites(w) = {i, i + 1}

\* The last call switched its comparator to Period mode.
SwitchedToPeriod ==
    \/ last.op = "load_value" /\ last.mode = "Period" /\ last.result = "Ok"
    \/ last.op = "enable_auto_reload" /\ last.flag

\* C8: every operation that switches a comparator to Period mode, load_value
\* on a Period-mode alarm as well as enable_auto_reload(true), writes the mode
\* register as Target and then immediately as Period.
C8_PeriodIsClearThenSet == SwitchedToPeriod => TargetThenPeriod(last.writes)

\* C10: the value a call programs as a comparator's target fits BIT_MASK and
\* the value it programs as the period fits PERIOD_MASK, and the register
\* holds the value unchanged (nothing was truncated).
C10_ProgrammedValueFits ==
    last.has_prog =>
        IF last.kind = "target"
        THEN /\ Leq(last.programmed, BIT_MASK(chip))
             /\ actual_target(Regs, last.ch) = last.programmed
        ELSE /\ Leq(last.programmed, PERIOD_MASK(chip))
             /\ Join(Zero32, target_conf[last.ch].period) = last.programmed

\* ----------------------------- the counter unit: set_count and read_count

\* read_count calls of one context in one behaviour.
MaxReads == 2

\* set_count calls in one behaviour.
MaxLoads == 1

\* Values handed to set_count.
LoadValues ==
    { <<0, 0, 65535, 65535>>,        \* 2^32 - 1
      <<0, 1, 0, 5>> }               \* 2^32 + 5

InCall(r) == rd[r].pc \notin {"idle", "done"}

\* The counter has moved to `cnt`: every read_count in progress has seen one
\* more value of the counter, and no longer follows a set_count directly.
Moved(cnt) ==
    [r \in Readers |->
        IF InCall(r)
        THEN [rd[r] EXCEPT !.held = @ \cup {cnt}, !.fresh = FALSE]
        ELSE rd[r]]

\* One hardware tick while reads and reloads are in progress.
CountTick ==
    /\ nticks < MaxTicks
    /\ count' = NextCount(count)
    /\ nticks' = nticks + 1
    /\ rd' = Moved(count')
    /\ reloaded' = [reloaded EXCEPT !.valid = FALSE]
    /\ UNCHANGED <<queueVars, radioVars, pairVars, commitVars, irqVars, fireVars, frzVars, lockVars, chip, overflow_checks, conf, target_conf, trgt, last, nops, halted>>
    /\ UNCHANGED <<sharedVars, unit_value, value_valid, update_req, unitload, ld>>

\* The hardware serves the update strobe: it latches the counter into the
\* value registers and sets value_valid.
HwLatch ==
    /\ update_req
    /\ unit_value' = [hi |-> Hi32(count), lo |-> Lo32(count)]
    /\ value_valid' = TRUE
    /\ update_req' = FALSE
    /\ UNCHANGED <<hwVars, apiVars, sharedVars, unitload, rd, ld, reloaded>>

\* A context calls read_count.
ReadCall(r) ==
    /\ rd[r].pc = "idle"
    /\ rd[r].calls < MaxReads
    /\ rd' = [rd EXCEPT ![r] = [IdleReader EXCEPT !.pc = "update", !.held = {count},
                                                  !.fresh = reloaded.valid,
                                                  !.calls = rd[r].calls + 1]]
    /\ UNCHANGED <<hwVars, apiVars, sharedVars, unit_value, value_valid, update_req, unitload, ld,
                   reloaded>>

\* systimer.unit_op(channel).write(|w| w.update().set_bit())
ReadUpdate(r) ==
    /\ rd[r].pc = "update"
    /\ update_req' = TRUE
    /\ value_valid' = FALSE
    /\ rd' = [rd EXCEPT ![r].pc = "wait"]
    /\ UNCHANGED <<hwVars, apiVars, sharedVars, unit_value, unitload, ld, reloaded>>

\* while !systimer.unit_op(channel).read().value_valid().bit_is_set() {}
ReadWait(r) ==
    /\ rd[r].pc = "wait"
    /\ value_valid
    /\ rd' = [rd EXCEPT ![r].pc = "lo_first"]
    /\ UNCHANGED <<hwVars, apiVars, sharedVars, unit_value, value_valid, update_req, unitload, ld,
                   reloaded>>

\* let mut lo_prev = unit_value.lo().read().bits()
ReadLoFirst(r) ==
    /\ rd[r].pc = "lo_first"
    /\ rd' = [rd EXCEPT ![r].pc = "hi", ![r].lo_prev = unit_value.lo]
    /\ UNCHANGED <<hwVars, apiVars, sharedVars, unit_value, value_valid, update_req, unitload, ld,
                   reloaded>>

\* let lo = lo_prev; let hi = unit_value.hi().read().bits()
ReadHi(r) ==
    /\ rd[r].pc = "hi"
    /\ rd' = [rd EXCEPT ![r].pc = "lo_again", ![r].lo = rd[r].lo_prev,
                        ![r].hi = unit_value.hi]
    /\ UNCHANGED <<hwVars, apiVars, sharedVars, unit_value, value_valid, update_req, unitload, ld,
                   reloaded>>

\* A loop that returns after its first pass, whatever it read.
first_pass_returns(lo, lo_prev) == TRUE

\* Whether a pass of read_count's loop returns: the two low reads agree.
PassReturns(lo, lo_prev) == lo = lo_prev

\* lo_prev = unit_value.lo().read().bits();
\* if lo == lo_prev { return ((hi as u64) << 32) | lo as u64 }
ReadLoAgain(r) ==
    /\ rd[r].pc = "lo_again"
    /\ LET lo_prev == unit_value.lo
       IN  IF PassReturns(rd[r].lo, lo_prev)
           THEN rd' = [rd EXCEPT ![r].pc = "done", ![r].lo_prev = lo_prev,
                                 ![r].result = Join(rd[r].hi, rd[r].lo),
                                 ![r].passes = rd[r].passes + 1]
           ELSE rd' = [rd EXCEPT ![r].pc = "hi", ![r].lo_prev = lo_prev,
                                 ![r].passes = rd[r].passes + 1]
    /\ UNCHANGED <<hwVars, apiVars, sharedVars, unit_value, value_valid, update_req, unitload, ld,
                   reloaded>>

\* The caller takes the value read_count returned.
ReadReturn(r) ==
    /\ rd[r].pc = "done"
    /\ rd' = [rd EXCEPT ![r] = [IdleReader EXCEPT !.calls = rd[r].calls]]
    /\ UNCHANGED <<hwVars, apiVars, sharedVars, unit_value, value_valid, update_req, unitload, ld,
                   reloaded>>

\* The owner of the unit calls set_count(value).
SetCountCall(value) ==
    /\ ld.pc = "idle"
    /\ ld.calls < MaxLoads
    /\ ld' = [pc |-> "load_hi", value |-> value, calls |-> ld.calls + 1]
    /\ UNCHANGED <<hwVars, apiVars, sharedVars, unit_value, value_valid, update_req, unitload, rd,
                   reloaded>>

\* The value set_count writes to load_hi: (value << 32) as _
set_count_hi(value) == Lo32(Shl32(value))

\* The value set_count writes to load_lo: (value & 0xFFFF_FFFF) as _
set_count_lo(value) == Lo32(value)

\* unitload.hi().write(|w| w.load_hi().set((value << 32) as _))
SetCountHi ==
    /\ ld.pc = "load_hi"
    /\ unitload' = [unitload EXCEPT !.hi = AndMask(set_count_hi(ld.value),
                                                   HiFieldMask(chip))]
    /\ ld' = [ld EXCEPT !.pc = "load_lo"]
    /\ UNCHANGED <<hwVars, apiVars, sharedVars, unit_value, value_valid, update_req, rd, reloaded>>

\* unitload.lo().write(|w| w.load_lo().set((value & 0xFFFF_FFFF) as _))
SetCountLo ==
    /\ ld.pc = "load_lo"
    /\ unitload' = [unitload EXCEPT !.lo = set_count_lo(ld.value)]
    /\ ld' = [ld EXCEPT !.pc = "load"]
    /\ UNCHANGED <<hwVars, apiVars, sharedVars, unit_value, value_valid, update_req, rd, reloaded>>

\* unit_load.write(|w| w.load().set_bit()): the counter takes the staged value
SetCountLoad ==
    /\ ld.pc = "load"
    /\ count' = Join(unitload.hi, unitload.lo)
    /\ ld' = [ld EXCEPT !.pc = "idle"]
    /\ rd' = Moved(count')
    /\ reloaded' = [valid |-> TRUE, value |-> ld.value]
    /\ UNCHANGED <<queueVars, radioVars, pairVars, commitVars, irqVars, fireVars, frzVars, lockVars, chip, overflow_checks, conf, target_conf, trgt, apiVars>>
    /\ UNCHANGED <<sharedVars, unit_value, value_valid, update_req, unitload>>

\* The counter unit does no arithmetic that can overflow: one build stands for both.
InitCount ==
    InitHw /\ ~overflow_checks /\ InitApi /\ InitCnt /\ InitShared /\ InitWait /\ OwnAlarms

NextCountUnit ==
    \/ CountTick
    \/ HwLatch
    \/ \E r \in Readers : ReadCall(r)
    \/ \E r \in Readers : ReadUpdate(r)
    \/ \E r \in Readers : ReadWait(r)
    \/ \E r \in Readers : ReadLoFirst(r)
    \/ \E r \in Readers : ReadHi(r)
    \/ \E r \in Readers : ReadLoAgain(r)
    \/ \E r \in Readers : ReadReturn(r)
    \/ \E v \in LoadValues : SetCountCall(v)
    \/ SetCountHi
    \/ SetCountLo
    \/ SetCountLoad

SpecCount == InitCount /\ [][NextCountUnit]_vars

\* C1: the value read_count returns is one the counter held, whole, at some
\* instant of the call: never the low half of one value with the high half
\* of another.
C1_NoTornRead == \A r \in Readers : rd[r].pc = "done" => rd[r].result \in rd[r].held

\* C9: a read_count that follows a completed set_count(V), with no tick and no
\* other reload since, returns V.
C9_ReadReturnsReloadedValue ==
    \A r \in Readers : (rd[r].pc = "done" /\ rd[r].fresh) => rd[r].result = reloaded.value

\* ====================================================================
\* The shared CONF register: its read-modify-writes, step by step
\* ====================================================================

\* CONF updates one context makes in one behaviour.
MaxConfOps == 2

UnitConfigs == {"Disabled", "DisabledIfCpuIsStalledProCpu", "DisabledIfCpuIsStalledAppCpu", "Enabled"}

\* Unit::configure: the closure of conf.modify, applied to the value read
configure(cf, unit, config) ==
    LET work_en == IF unit = 0 THEN "timer_unit0_work_en" ELSE "timer_unit1_work_en"
        core0_stall_en ==
            IF unit = 0 THEN "timer_unit0_core0_stall_en" ELSE "timer_unit1_core0_stall_en"
        core1_stall_en ==
            IF unit = 0 THEN "timer_unit0_core1_stall_en" ELSE "timer_unit1_core1_stall_en"
    IN  CASE config = "Disabled" -> [cf EXCEPT ![work_en] = FALSE]
          [] config = "DisabledIfCpuIsStalledProCpu" ->
                [cf EXCEPT ![work_en] = TRUE, ![core0_stall_en] = TRUE,
                           ![core1_stall_en] = FALSE]
          [] config = "DisabledIfCpuIsStalledAppCpu" ->
                [cf EXCEPT ![work_en] = TRUE, ![core0_stall_en] = FALSE,
                           ![core1_stall_en] = TRUE]
          [] config = "Enabled" ->
                [cf EXCEPT ![work_en] = TRUE, ![core0_stall_en] = FALSE,
                           ![core1_stall_en] = FALSE]

\* Alarm::reset, cfg(not(esp32s2)): the closure of conf().modify
reset(cf) == [cf EXCEPT !["timer_unit0_core0_stall_en"] = FALSE]

SetEnableOp(ch, enable) == [kind |-> "set_enable", n |-> ch, flag |-> enable, config |-> "none"]

ConfigureOp(unit, config) == [kind |-> "configure", n |-> unit, flag |-> FALSE, config |-> config]

ResetOp == [kind |-> "reset", n |-> 0, flag |-> FALSE, config |-> "none"]

\* The value an update writes back, given the value it read.
Apply(op, cf) ==
    CASE op.kind = "set_enable" -> set_enable([Regs EXCEPT !.cf = cf], op.n, op.flag).cf
      [] op.kind = "configure" -> configure(cf, op.n, op.config)
      [] op.kind = "reset" -> reset(cf)

\* The bits an update is addressed to: those it sets whatever it read.
Addressed(op) ==
    {b \in ConfBits :
        Apply(op, [x \in ConfBits |-> TRUE])[b] = Apply(op, [x \in ConfBits |-> FALSE])[b]}

\* set_enable and configure run their modify inside lock(&CONF_LOCK, ..);
\* Alarm::reset calls modify directly.
TakesConfLock(op) == op.kind \in {"set_enable", "configure"}

\* What each context does: the task of core 0 drives alarm 0, the handlers
\* of core 0 start and stop alarm 1, core 1 owns unit 1.
OpsOf(c) ==
    CASE c = "core0" -> {SetEnableOp(0, TRUE), ResetOp}
      [] c = "isr0" -> {SetEnableOp(1, TRUE), SetEnableOp(1, FALSE)}
      [] c = "core1" -> {ConfigureOp(1, k) : k \in UnitConfigs}

\* The task of core 0 does not run while a handler of core 0 is running.
Preempted(c) == c = "core0" /\ cx["isr0"].pc # "idle"

\* A section under the lock runs with the interrupts of its core disabled:
\* no handler of core 0 starts while the task of core 0 is inside one.
Masked(c) == c = "isr0" /\ CONF_LOCK = "core0"

\* A context starts set_enable, configure or reset.
ConfBegin(c, op) ==
    /\ cx[c].pc = "idle"
    /\ cx[c].calls < MaxConfOps
    /\ ~Preempted(c)
    /\ ~Masked(c)
    /\ cx' = [cx EXCEPT ![c].op = op,
                        ![c].pc = IF TakesConfLock(op) THEN "acquire" ELSE "read"]
    /\ UNCHANGED <<queueVars, radioVars, pairVars, commitVars, irqVars, fireVars, frzVars, lockVars, hwVars, apiVars, cntVars, waitVars, CONF_LOCK, want>>

\* lock(&CONF_LOCK, ..): entered once no other context is inside
ConfAcquire(c) ==
    /\ cx[c].pc = "acquire"
    /\ ~Preempted(c)
    /\ CONF_LOCK = "none"
    /\ CONF_LOCK' = c
    /\ cx' = [cx EXCEPT ![c].pc = "read"]
    /\ UNCHANGED <<queueVars, radioVars, pairVars, commitVars, irqVars, fireVars, frzVars, lockVars, hwVars, apiVars, cntVars, waitVars, want>>

\* conf.modify: the read
ConfRead(c) ==
    /\ cx[c].pc = "read"
    /\ ~Preempted(c)
    /\ cx' = [cx EXCEPT ![c].snap = conf, ![c].pc = "write"]
    /\ UNCHANGED <<queueVars, radioVars, pairVars, commitVars, irqVars, fireVars, frzVars, lockVars, hwVars, apiVars, cntVars, waitVars, CONF_LOCK, want>>

\* conf.modify: the write of the value read, with the update's bits changed
ConfWrite(c) ==
    /\ cx[c].pc = "write"
    /\ ~Preempted(c)
    /\ conf' = Apply(cx[c].op, cx[c].snap)
    /\ want' = [b \in ConfBits |->
                    IF b \in Addressed(cx[c].op) THEN Apply(cx[c].op, cx[c].snap)[b]
                    ELSE want[b]]
    /\ cx' = [cx EXCEPT ![c].pc = IF TakesConfLock(cx[c].op) THEN "release" ELSE "idle",
                        ![c].calls = IF TakesConfLock(cx[c].op) THEN @ ELSE @ + 1]
    /\ UNCHANGED <<queueVars, radioVars, pairVars, commitVars, irqVars, fireVars, frzVars, lockVars, chip, overflow_checks, count, target_conf, trgt>>
    /\ UNCHANGED <<queueVars, radioVars, pairVars, commitVars, irqVars, fireVars, frzVars, lockVars, apiVars, cntVars, waitVars, CONF_LOCK>>

\* the end of lock(&CONF_LOCK, ..)
ConfRelease(c) ==
    /\ cx[c].pc = "release"
    /\ ~Preempted(c)
    /\ CONF_LOCK' = "none"
    /\ cx' = [cx EXCEPT ![c].pc = "idle", ![c].calls = @ + 1]
    /\ UNCHANGED <<queueVars, radioVars, pairVars, commitVars, irqVars, fireVars, frzVars, lockVars, hwVars, apiVars, cntVars, waitVars, want>>

\* CONF exists in this layout on the narrow variant only.
InitConfUnit ==
    /\ InitHw
    /\ chip = "narrow"
    /\ ~overflow_checks
    /\ count = Zero64
    /\ InitApi
    /\ InitCnt
    /\ InitShared
    /\ InitWait
    /\ OwnAlarms

NextConfUnit ==
    \/ \E c \in Contexts : \E op \in OpsOf(c) : ConfBegin(c, op)
    \/ \E c \in Contexts : ConfAcquire(c)
    \/ \E c \in Contexts : ConfRead(c)
    \/ \E c \in Contexts : ConfWrite(c)
    \/ \E c \in Contexts : ConfRelease(c)

SpecConf == InitConfUnit /\ [][NextConfUnit]_vars

AllIdle == \A c \in Contexts : cx[c].pc = "idle"

\* C3: every read-modify-write of CONF is made under the shared-register
\* lock, so no update is lost: once all updates have completed, every bit of
\* CONF holds the value of the last update addressed to that bit.
C3_NoLostConfUpdate == AllIdle => conf = want

\* ====================================================================
\* wait(): AlarmFuture, the asynch handlers and the shared INT_ENA register
\* ====================================================================

\* Comparator matches in one behaviour.
MaxFires == 2

\* enable_interrupt calls the task of core 1 makes in one behaviour.
MaxUserOps == 1

\* The comparator the task of core 1 drives.
UserChannel == NUM_ALARMS - 1

\* An enable_interrupt that writes INT_ENA back as it read it.
enable_interrupt_skipped(ena, ch, state) == ena

\* Alarm::enable_interrupt: the closure of int_ena().modify
enable_interrupt(ena, ch, state) == [ena EXCEPT ![ch] = state]

\* A clear_interrupt that writes one to every bit of INT_CLR.
clear_interrupt_all(raw, ch) == [c \in Channels |-> FALSE]

\* Alarm::clear_interrupt: int_clr().write, write-one-to-clear on INT_RAW
clear_interrupt(raw, ch) == [raw EXCEPT ![ch] = FALSE]

\* A status read that reports the enable bit.
is_interrupt_enabled(ch) == int_ena[ch]

\* Alarm::is_interrupt_set
is_interrupt_set(ch) == int_raw[ch]

\* A bit test on the raw status.
raw_bit_is_clear(ch) == ~int_raw[ch]

\* A check that finds the event bit clear whatever INT_ENA holds.
event_bit_ignored(ch) == TRUE

\* AlarmFuture::event_bit_is_clear
event_bit_is_clear(ch) == ~int_ena[ch]

\* An AtomicWaker that keeps the waker it already holds.
register_first(slot, w) == IF slot = "none" THEN w ELSE slot

\* WAKERS[ch].register(ctx.waker()): the waker held afterwards
register(slot, w) == w

\* WAKERS[ch].wake(): the task woken, if any
wake(slot) == slot

\* A handler that writes INT_ENA with only its own bit decided.
handler_write(ena, ch) == [c \in Channels |-> FALSE]

\* targetN_handler: the closure of int_ena().modify
handler_clear(ena, ch) == [ena EXCEPT ![ch] = FALSE]

\* The executor of core 0 polls one task at a time, and no task runs while
\* a handler of core 0 is running.
Runnable(w) ==
    /\ hd.pc = "idle"
    /\ \A v \in Waiters \ {w} : wt[v].pc \in {"init", "pending", "done"}

WaitFrame == UNCHANGED <<queueVars, radioVars, pairVars, commitVars, irqVars, fireVars, frzVars, lockVars, hwVars, apiVars, cntVars, confVars, alarm_of, usr, nfires>>

\* AlarmFuture::new: alarm.clear_interrupt()
WaitClearInterrupt(w) ==
    /\ wt[w].pc = "init"
    /\ Runnable(w)
    /\ int_raw' = clear_interrupt(int_raw, alarm_of[w])
    /\ wt' = [wt EXCEPT ![w].pc = "bind"]
    /\ WaitFrame
    /\ UNCHANGED <<queueVars, radioVars, pairVars, commitVars, irqVars, fireVars, frzVars, lockVars, int_ena, bound, INT_ENA_LOCK, WAKERS, hd, want_ena, latest>>

\* AlarmFuture::new: alarm.set_interrupt_handler(targetN_handler)
WaitBind(w) ==
    /\ wt[w].pc = "bind"
    /\ Runnable(w)
    /\ bound' = [bound EXCEPT ![alarm_of[w]] = TRUE]
    /\ wt' = [wt EXCEPT ![w].pc = "acquire"]
    /\ WaitFrame
    /\ UNCHANGED <<queueVars, radioVars, pairVars, commitVars, irqVars, fireVars, frzVars, lockVars, int_ena, int_raw, INT_ENA_LOCK, WAKERS, hd, want_ena, latest>>

\* AlarmFuture::new: alarm.enable_interrupt(true), entering lock(&INT_ENA_LOCK, ..)
WaitAcquire(w) ==
    /\ wt[w].pc = "acquire"
    /\ Runnable(w)
    /\ INT_ENA_LOCK = "none"
    /\ INT_ENA_LOCK' = "core0"
    /\ wt' = [wt EXCEPT ![w].pc = "read"]
    /\ WaitFrame
    /\ UNCHANGED <<queueVars, radioVars, pairVars, commitVars, irqVars, fireVars, frzVars, lockVars, int_ena, int_raw, bound, WAKERS, hd, want_ena, latest>>

\* enable_interrupt(true): int_ena().modify, the read
WaitRead(w) ==
    /\ wt[w].pc = "read"
    /\ Runnable(w)
    /\ wt' = [wt EXCEPT ![w].snap = int_ena, ![w].pc = "write"]
    /\ WaitFrame
    /\ UNCHANGED <<queueVars, radioVars, pairVars, commitVars, irqVars, fireVars, frzVars, lockVars, int_ena, int_raw, bound, INT_ENA_LOCK, WAKERS, hd, want_ena, latest>>

\* enable_interrupt(true): int_ena().modify, the write. The interrupt of the
\* alarm is armed again: no handler has run for it since.
WaitWrite(w) ==
    /\ wt[w].pc = "write"
    /\ Runnable(w)
    /\ int_ena' = enable_interrupt(wt[w].snap, alarm_of[w], TRUE)
    /\ want_ena' = [want_ena EXCEPT ![alarm_of[w]] = TRUE]
    /\ wt' = [v \in Waiters |->
                IF v = w THEN [wt[v] EXCEPT !.pc = "release", !.handled = FALSE]
                ELSE IF alarm_of[v] = alarm_of[w] /\ wt[v].pc # "done"
                     THEN [wt[v] EXCEPT !.handled = FALSE]
                ELSE wt[v]]
    /\ WaitFrame
    /\ UNCHANGED <<queueVars, radioVars, pairVars, commitVars, irqVars, fireVars, frzVars, lockVars, int_raw, bound, INT_ENA_LOCK, WAKERS, hd, latest>>

\* enable_interrupt(true): leaving lock(&INT_ENA_LOCK, ..)
WaitRelease(w) ==
    /\ wt[w].pc = "release"
    /\ Runnable(w)
    /\ INT_ENA_LOCK' = "none"
    /\ wt' = [wt EXCEPT ![w].pc = "register"]
    /\ WaitFrame
    /\ UNCHANGED <<queueVars, radioVars, pairVars, commitVars, irqVars, fireVars, frzVars, lockVars, int_ena, int_raw, bound, WAKERS, hd, want_ena, latest>>

\* AlarmFuture::poll: WAKERS[ch].register(ctx.waker()). A task whose waker
\* is replaced before it was woken is superseded.
PollRegister(w) ==
    LET ch == alarm_of[w] IN
    /\ wt[w].pc = "register"
    /\ Runnable(w)
    /\ WAKERS' = [WAKERS EXCEPT ![ch] = register(WAKERS[ch], w)]
    /\ latest' = [latest EXCEPT ![ch] = w]
    /\ wt' = [v \in Waiters |->
                IF v = w
                THEN [wt[v] EXCEPT !.pc = "check", !.polls = @ + 1,
                                   !.fired_at_poll = ~int_ena[ch]]
                ELSE IF WAKERS[ch] = v /\ wt[v].pc = "pending" /\ ~wt[v].woken
                     THEN [wt[v] EXCEPT !.superseded = TRUE]
                     ELSE wt[v]]
    /\ WaitFrame
    /\ UNCHANGED <<queueVars, radioVars, pairVars, commitVars, irqVars, fireVars, frzVars, lockVars, int_ena, int_raw, bound, INT_ENA_LOCK, hd, want_ena>>

\* AlarmFuture::poll: Ready if the event bit is clear, Pending otherwise.
\* A task that completes reads is_interrupt_set() next.
PollCheck(w) ==
    LET ch == alarm_of[w] IN
    /\ wt[w].pc = "check"
    /\ Runnable(w)
    /\ wt' = [wt EXCEPT ![w].pc = IF event_bit_is_clear(ch) THEN "done" ELSE "pending",
                        ![w].is_set = is_interrupt_set(ch)]
    /\ WaitFrame
    /\ UNCHANGED <<queueVars, radioVars, pairVars, commitVars, irqVars, fireVars, frzVars, lockVars, int_ena, int_raw, bound, INT_ENA_LOCK, WAKERS, hd, want_ena, latest>>

\* The executor polls a suspended task again once its waker was woken.
Resume(w) ==
    /\ wt[w].pc = "pending"
    /\ wt[w].woken
    /\ Runnable(w)
    /\ wt' = [wt EXCEPT ![w].pc = "register", ![w].woken = FALSE]
    /\ WaitFrame
    /\ UNCHANGED <<queueVars, radioVars, pairVars, commitVars, irqVars, fireVars, frzVars, lockVars, int_ena, int_raw, bound, INT_ENA_LOCK, WAKERS, hd, want_ena, latest>>

\* The comparator matches: the hardware sets its raw interrupt status.
Fire(ch) ==
    /\ nfires < MaxFires
    /\ ch \in {alarm_of[w] : w \in Waiters}
    /\ nfires' = nfires + 1
    /\ int_raw' = [int_raw EXCEPT ![ch] = TRUE]
    /\ UNCHANGED <<queueVars, radioVars, pairVars, commitVars, irqVars, fireVars, frzVars, lockVars, hwVars, apiVars, cntVars, confVars>>
    /\ UNCHANGED <<queueVars, radioVars, pairVars, commitVars, irqVars, fireVars, frzVars, lockVars, int_ena, bound, INT_ENA_LOCK, WAKERS, alarm_of, wt, hd, usr, want_ena, latest>>

\* A section under the lock runs with the interrupts of its core disabled.
HandlerMasked == "core0" \in {INT_ENA_LOCK, CONF_LOCK}

HandlerFrame == UNCHANGED <<queueVars, radioVars, pairVars, commitVars, irqVars, fireVars, frzVars, lockVars, hwVars, apiVars, cntVars, confVars, alarm_of, usr, nfires>>

\* The interrupt of comparator ch is raised and enabled: core 0 enters
\* targetN_handler, unless its interrupts are disabled.
HandlerEnter(ch) ==
    /\ hd.pc = "idle"
    /\ int_raw[ch] /\ int_ena[ch] /\ bound[ch]
    /\ ~HandlerMasked
    /\ hd' = [hd EXCEPT !.pc = "acquire", !.ch = ch, !.woke = "none", !.latest = "none",
                        !.waited = (INT_ENA_LOCK # "none")]
    /\ HandlerFrame
    /\ UNCHANGED <<queueVars, radioVars, pairVars, commitVars, irqVars, fireVars, frzVars, lockVars, int_ena, int_raw, bound, INT_ENA_LOCK, WAKERS, wt, want_ena, latest>>

\* targetN_handler: entering lock(&INT_ENA_LOCK, ..)
HandlerAcquire ==
    /\ hd.pc = "acquire"
    /\ INT_ENA_LOCK = "none"
    /\ INT_ENA_LOCK' = "isr0"
    /\ hd' = [hd EXCEPT !.pc = "read"]
    /\ HandlerFrame
    /\ UNCHANGED <<queueVars, radioVars, pairVars, commitVars, irqVars, fireVars, frzVars, lockVars, int_ena, int_raw, bound, WAKERS, wt, want_ena, latest>>

\* targetN_handler: int_ena().modify, the read
HandlerRead ==
    /\ hd.pc = "read"
    /\ hd' = [hd EXCEPT !.snap = int_ena, !.pc = "write"]
    /\ HandlerFrame
    /\ UNCHANGED <<queueVars, radioVars, pairVars, commitVars, irqVars, fireVars, frzVars, lockVars, int_ena, int_raw, bound, INT_ENA_LOCK, WAKERS, wt, want_ena, latest>>

\* targetN_handler: int_ena().modify, the write. The interrupt of the alarm
\* has fired and was handled.
HandlerWrite ==
    /\ hd.pc = "write"
    /\ int_ena' = handler_clear(hd.snap, hd.ch)
    /\ want_ena' = [want_ena EXCEPT ![hd.ch] = FALSE]
    /\ hd' = [hd EXCEPT !.pc = "release"]
    /\ wt' = [w \in Waiters |->
                IF alarm_of[w] = hd.ch /\ wt[w].pc # "done"
                THEN [wt[w] EXCEPT !.handled = TRUE]
                ELSE wt[w]]
    /\ HandlerFrame
    /\ UNCHANGED <<queueVars, radioVars, pairVars, commitVars, irqVars, fireVars, frzVars, lockVars, int_raw, bound, INT_ENA_LOCK, WAKERS, latest>>

\* targetN_handler: leaving lock(&INT_ENA_LOCK, ..)
HandlerRelease ==
    /\ hd.pc = "release"
    /\ INT_ENA_LOCK' = "none"
    /\ hd' = [hd EXCEPT !.pc = "wake"]
    /\ HandlerFrame
    /\ UNCHANGED <<queueVars, radioVars, pairVars, commitVars, irqVars, fireVars, frzVars, lockVars, int_ena, int_raw, bound, WAKERS, wt, want_ena, latest>>

\* targetN_handler: WAKERS[N].wake(), and the return from the handler
HandlerWake ==
    LET woke == wake(WAKERS[hd.ch]) IN
    /\ hd.pc = "wake"
    /\ wt' = [w \in Waiters |-> IF w = woke THEN [wt[w] EXCEPT !.woken = TRUE] ELSE wt[w]]
    /\ hd' = [hd EXCEPT !.pc = "idle", !.woke = woke, !.latest = latest[hd.ch],
                        !.runs = @ + 1]
    /\ HandlerFrame
    /\ UNCHANGED <<queueVars, radioVars, pairVars, commitVars, irqVars, fireVars, frzVars, lockVars, int_ena, int_raw, bound, INT_ENA_LOCK, WAKERS, want_ena, latest>>

UserFrame == UNCHANGED <<queueVars, radioVars, pairVars, commitVars, irqVars, fireVars, frzVars, lockVars, hwVars, apiVars, cntVars, confVars, alarm_of, wt, hd, nfires>>

\* The task of core 1 calls enable_interrupt(state) on its alarm.
UserBegin(state) ==
    /\ usr.pc = "idle"
    /\ usr.calls < MaxUserOps
    /\ usr' = [usr EXCEPT !.pc = "acquire", !.state = state]
    /\ UserFrame
    /\ UNCHANGED <<queueVars, radioVars, pairVars, commitVars, irqVars, fireVars, frzVars, lockVars, int_ena, int_raw, bound, INT_ENA_LOCK, WAKERS, want_ena, latest>>

\* enable_interrupt: entering lock(&INT_ENA_LOCK, ..)
UserAcquire ==
    /\ usr.pc = "acquire"
    /\ INT_ENA_LOCK = "none"
    /\ INT_ENA_LOCK' = "core1"
    /\ usr' = [usr EXCEPT !.pc = "read"]
    /\ UserFrame
    /\ UNCHANGED <<queueVars, radioVars, pairVars, commitVars, irqVars, fireVars, frzVars, lockVars, int_ena, int_raw, bound, WAKERS, want_ena, latest>>

\* enable_interrupt: int_ena().modify, the read
UserRead ==
    /\ usr.pc = "read"
    /\ usr' = [usr EXCEPT !.snap = int_ena, !.pc = "write"]
    /\ UserFrame
    /\ UNCHANGED <<queueVars, radioVars, pairVars, commitVars, irqVars, fireVars, frzVars, lockVars, int_ena, int_raw, bound, INT_ENA_LOCK, WAKERS, want_ena, latest>>

\* enable_interrupt: int_ena().modify, the write
UserWrite ==
    /\ usr.pc = "write"
    /\ int_ena' = enable_interrupt(usr.snap, UserChannel, usr.state)
    /\ want_ena' = [want_ena EXCEPT ![UserChannel] = usr.state]
    /\ usr' = [usr EXCEPT !.pc = "release"]
    /\ UserFrame
    /\ UNCHANGED <<queueVars, radioVars, pairVars, commitVars, irqVars, fireVars, frzVars, lockVars, int_raw, bound, INT_ENA_LOCK, WAKERS, latest>>

\* enable_interrupt: leaving lock(&INT_ENA_LOCK, ..)
UserRelease ==
    /\ usr.pc = "release"
    /\ INT_ENA_LOCK' = "none"
    /\ usr' = [usr EXCEPT !.pc = "idle", !.calls = @ + 1]
    /\ UserFrame
    /\ UNCHANGED <<queueVars, radioVars, pairVars, commitVars, irqVars, fireVars, frzVars, lockVars, int_ena, int_raw, bound, WAKERS, want_ena, latest>>

\* The tasks wait on the same alarm or on alarms of their own.
InitWaitUnit ==
    /\ InitHw
    /\ chip = "narrow"
    /\ ~overflow_checks
    /\ count = Zero64
    /\ InitApi
    /\ InitCnt
    /\ InitShared
    /\ InitWait
    /\ alarm_of \in {[w \in Waiters |-> 0], [w \in Waiters |-> IF w = "a" THEN 0 ELSE 1]}

NextWaitUnit ==
    \/ \E w \in Waiters : WaitClearInterrupt(w)
    \/ \E w \in Waiters : WaitBind(w)
    \/ \E w \in Waiters : WaitAcquire(w)
    \/ \E w \in Waiters : WaitRead(w)
    \/ \E w \in Waiters : WaitWrite(w)
    \/ \E w \in Waiters : WaitRelease(w)
    \/ \E w \in Waiters : PollRegister(w)
    \/ \E w \in Waiters : PollCheck(w)
    \/ \E w \in Waiters : Resume(w)
    \/ \E ch \in Channels : Fire(ch)
    \/ \E ch \in Channels : HandlerEnter(ch)
    \/ HandlerAcquire
    \/ HandlerRead
    \/ HandlerWrite
    \/ HandlerRelease
    \/ HandlerWake
    \/ \E state \in BOOLEAN : UserBegin(state)
    \/ UserAcquire
    \/ UserRead
    \/ UserWrite
    \/ UserRelease

SpecWait == InitWaitUnit /\ [][NextWaitUnit]_vars

\* C4: updates of INT_ENA never interleave, so none is lost: every bit holds
\* the value of the last update addressed to it. When the handler of channel
\* i runs while enable_interrupt(state) for another channel j is in the
\* middle of its read-modify-write, afterwards bit i is clear and bit j
\* equals state.
C4_NoLostEnaUpdate == int_ena = want_ena

\* The handler was entered on core 0 while the task of core 1 was inside
\* enable_interrupt(true); both have completed.
C4_HandlerWaitedForUser ==
    /\ hd.pc = "idle" /\ hd.runs > 0 /\ hd.waited
    /\ usr.pc = "idle" /\ usr.calls > 0 /\ usr.state
    /\ ~int_ena[hd.ch]
    /\ int_ena[UserChannel]

\* The task is the only one that waits on its alarm.
Sole(w) == \A v \in Waiters \ {w} : alarm_of[v] # alarm_of[w]

HandlerAboutToWake(ch) == hd.ch = ch /\ hd.pc \in {"release", "wake"}

\* C5: no wake-up is lost in wait(). A poll that starts after the interrupt
\* fired completes; a task suspended by its poll is either already woken, or
\* its waker is registered and the interrupt is still enabled (it has not
\* fired since the check) or the handler is about to wake it.
C5_NoLostWakeup ==
    \A w \in Waiters :
        (Sole(w) /\ wt[w].pc = "pending") =>
            /\ ~wt[w].fired_at_poll
            /\ \/ wt[w].woken
               \/ /\ WAKERS[alarm_of[w]] = w
                  /\ int_ena[alarm_of[w]] \/ HandlerAboutToWake(alarm_of[w])

\* A task suspended, was woken by the handler and completed on its next poll.
C5_WokenThenCompleted ==
    \E w \in Waiters : Sole(w) /\ wt[w].pc = "done" /\ wt[w].polls = 2 /\ hd.woke = w

\* C6 as stated: immediately after a wait() has resumed because the alarm's
\* interrupt fired, is_interrupt_set() returns false.
C6_StatusClearAfterWait ==
    \A w \in Waiters : (wt[w].pc = "done" /\ wt[w].handled) => ~wt[w].is_set

\* C6: immediately after a wait() has resumed because the alarm's interrupt
\* fired, is_interrupt_set() returns true: the handler clears the enable bit
\* only, the raw status stays set until clear_interrupt().
C6_StatusStillSetAfterWait ==
    \A w \in Waiters : (wt[w].pc = "done" /\ wt[w].handled) => wt[w].is_set

\* A wait() completed after the handler ran, and read the status as set.
C6_ResumedWithStatusSet ==
    \E w \in Waiters : wt[w].pc = "done" /\ wt[w].handled /\ wt[w].is_set

\* C7: a channel's AtomicWaker holds one waker. When two tasks register on
\* the same channel before either resumes, the second registration replaces
\* the first: the handler wakes the task that registered last, and the
\* earlier one is not woken.
C7_LastRegisterWins ==
    /\ \A v \in Waiters : wt[v].superseded => ~wt[v].woken
    /\ hd.woke # "none" => hd.woke = hd.latest

\* Two tasks registered on one channel and the handler woke the second only.
C7_SecondCallerWoken ==
    \E v, w \in Waiters :
        /\ v # w /\ alarm_of[v] = alarm_of[w]
        /\ wt[v].superseded /\ ~wt[v].woken /\ wt[v].pc = "pending"
        /\ hd.woke = w /\ wt[w].woken

\* ====================================================================
\* The alarm API: what a call programs and what it leaves alone
\* ====================================================================

\* The last call was a load_value in Target mode that returned Ok.
TargetReschedule == last.op = "load_value" /\ last.mode = "Target" /\ last.result = "Ok"

\* C11: in Target mode a successful load_value programs the comparator's
\* target to exactly c + ticks, c being the counter value the call read; a
\* later call uses its own counter read.
C11_TargetIsCountPlusTicks ==
    TargetReschedule =>
        LET sum == AddU64(last.v, last.ticks)
        IN  ~sum.overflow /\ actual_target(Regs, last.ch) = sum.value

Modes == {"Target", "Period"}

\* The registers a call may find: every combination of started / stopped and
\* Target / Period the two alarms can have been put in by start, stop and
\* enable_auto_reload. The calls that put them there count as one.
FoundRegs(e0, e1, m0, m1) ==
    LET R0 == [cf |-> InitConf, tc |-> InitTargetConf, tg |-> InitTrgt, log |-> <<>>]
    IN  set_enable(set_enable(set_mode(set_mode(R0, 0, m0), 1, m1), 0, e0), 1, e1)

InitFrame ==
    /\ chip \in Chips
    /\ overflow_checks = FALSE
    /\ count = Zero64
    /\ \E e0, e1 \in BOOLEAN, m0, m1 \in Modes :
          LET R == FoundRegs(e0, e1, m0, m1)
          IN  conf = R.cf /\ target_conf = R.tc /\ trgt = R.tg
    /\ last = NoCall
    /\ nops = 1
    /\ nticks = 0
    /\ halted = FALSE
    /\ InitCnt
    /\ InitShared
    /\ InitWait
    /\ OwnAlarms

SpecFrame == InitFrame /\ [][Next]_vars

\* The registers the last call found.
BeforeRegs == [cf |-> last.before.cf, tc |-> last.before.tc, tg |-> last.before.tg,
               log |-> <<>>]

AlarmStates == {"Stopped", "Running-Target", "Running-Period"}

AlarmState(R, ch) ==
    IF ~is_running(R, ch) THEN "Stopped"
    ELSE IF mode(R, ch) = "Period" THEN "Running-Period" ELSE "Running-Target"

\* C13: an alarm's comparator is in exactly one of Stopped, Running-Target
\* and Running-Period, and only start and stop change the enabled flag:
\* enable_auto_reload, load_value (its Target write of the Period re-arm
\* included) and the comparator's setters write no enable bit and leave the
\* enabled flag of every comparator as they found it.
C13_OnlyStartStopChangeEnabled ==
    /\ \A ch \in Channels : AlarmState(Regs, ch) \in AlarmStates
    /\ last.op \notin {"none", "start", "stop"} =>
          /\ \A ch \in Channels : is_enabled(Regs, ch) = is_enabled(BeforeRegs, ch)
          /\ \A i \in DOMAIN last.writes : last.writes[i].reg # "work_en"

\* A running Period-mode alarm was re-armed by load_value on the variant
\* that keeps the enable bit in the register of the mode bit, and still runs.
C13_RunningPeriodRearmed ==
    /\ chip = "wide"
    /\ last.op = "load_value" /\ last.mode = "Period" /\ last.result = "Ok"
    /\ last.running
    /\ AlarmState(Regs, last.ch) = "Running-Period"

\* Everything but the enabled flag of comparator ch is as the call found it:
\* the targets, every comparator's mode and period, the enabled flags of the
\* other comparators and the bits of CONF that belong to the units.
OnlyEnabledOf(ch) ==
    /\ trgt = last.before.tg
    /\ \A c \in Channels :
          /\ mode(Regs, c) = mode(BeforeRegs, c)
          /\ target_conf[c].period = last.before.tc[c].period
          /\ target_conf[c].timer_unit_sel = last.before.tc[c].timer_unit_sel
          /\ c # ch => is_enabled(Regs, c) = is_enabled(BeforeRegs, c)
    /\ \A b \in ConfBits \ {WorkEnBit(ch)} : conf[b] = last.before.cf[b]

SameRegisters ==
    conf = last.before.cf /\ target_conf = last.before.tc /\ trgt = last.before.tg

\* C14: start makes is_running true and changes no register when the alarm
\* already runs; stop makes is_running false; neither changes the
\* comparator's mode, target or period, nor the enabled flag of another
\* comparator.
C14_StartStopTouchOnlyEnabled ==
    /\ last.op = "start" =>
          /\ is_running(Regs, last.ch)
          /\ last.running => SameRegisters
          /\ OnlyEnabledOf(last.ch)
    /\ last.op = "stop" =>
          /\ ~is_running(Regs, last.ch)
          /\ OnlyEnabledOf(last.ch)

\* start was called on a running alarm while another alarm runs in Period mode.
C14_StartOnRunningAlarm ==
    /\ last.op = "start" /\ last.running /\ is_running(Regs, last.ch)
    /\ \E c \in Alarms \ {last.ch} : AlarmState(Regs, c) = "Running-Period"

\* ------------------------------------------------------------ the cross-core lock
\*
\* critical_section_impl of a multi-core chip: acquire() masks the interrupts
\* of its core and takes MULTICORE_LOCK, release() gives the lock back and
\* restores PS.  Each core runs acquire() and release() step by step; critical
\* sections nest, so a core releases the token it acquired last.

\* Critical sections one core nests.
MaxDepth == 2

\* The interrupt level "rsil {0}, 5" leaves in PS.
MaskedLevel == 5

\* A try_lock that stores the new owner whatever the owner was.
try_lock_store(o, new_owner) == [ok |-> TRUE, owner |-> new_owner]

\* ReentrantMutex::try_lock: compare_exchange(UNUSED_THREAD_ID_VALUE, new_owner)
try_lock(o, new_owner) ==
    IF o = UNUSED_THREAD_ID_VALUE
    THEN [ok |-> TRUE, owner |-> new_owner]
    ELSE [ok |-> FALSE, owner |-> o]

\* An unlock that leaves the owner in place.
unlock_skipped == owner

\* ReentrantMutex::unlock
unlock == UNUSED_THREAD_ID_VALUE

\* ReentrantMutex::is_owned_by_current_thread
is_owned_by_current_thread(c) == owner = thread_id(c)

\* A release that takes no token for a reentrant one.
never_reentry(token) == FALSE

\* release(): token & REENTRY_FLAG != 0
is_reentry(token) == token.reentry

\* The core is inside a critical section: acquire() has returned a token that
\* release() has not been given yet.
Inside(c) == cs[c].held # <<>>

\* lock() returns kind: acquire() returns the token, with the reentry flag on
\* LockKind::Reentry.
Acquired(c, kind) ==
    cs' = [cs EXCEPT ![c].pc = "idle",
                     ![c].kind = kind,
                     ![c].held = Append(@, [cs[c].tkn EXCEPT !.reentry = (kind = "Reentry")])]

\* acquire(): "rsil {0}, 5" reads PS into tkn and raises the interrupt level.
Acquire(c) ==
    /\ cs[c].pc = "idle"
    /\ Len(cs[c].held) < MaxDepth
    /\ cs' = [cs EXCEPT ![c].pc = "try_lock",
                        ![c].tkn = Token(cs[c].ps, FALSE),
                        ![c].ps = MaskedLevel,
                        ![c].spun = FALSE]
    /\ UNCHANGED <<queueVars, radioVars, pairVars, commitVars, irqVars, fireVars, frzVars, hwVars, apiVars, cntVars, confVars, waitVars, owner>>

\* lock(): the first try_lock
TryLock(c) ==
    /\ cs[c].pc = "try_lock"
    /\ LET r == try_lock(owner, thread_id(c))
       IN  /\ owner' = r.owner
           /\ IF r.ok THEN Acquired(c, "Lock")
                      ELSE cs' = [cs EXCEPT ![c].pc = "load"]
    /\ UNCHANGED <<queueVars, radioVars, pairVars, commitVars, irqVars, fireVars, frzVars, hwVars, apiVars, cntVars, confVars, waitVars>>

\* lock(): current_owner == current_thread_id returns Reentry, else the core
\* goes to the spin loop.
LoadOwner(c) ==
    /\ cs[c].pc = "load"
    /\ IF owner = thread_id(c)
       THEN Acquired(c, "Reentry")
       ELSE cs' = [cs EXCEPT ![c].pc = "spin", ![c].spun = TRUE]
    /\ UNCHANGED <<queueVars, radioVars, pairVars, commitVars, irqVars, fireVars, frzVars, hwVars, apiVars, cntVars, confVars, waitVars, owner>>

\* lock(): while !self.try_lock(current_thread_id) {}
SpinLock(c) ==
    /\ cs[c].pc = "spin"
    /\ LET r == try_lock(owner, thread_id(c))
       IN  /\ owner' = r.owner
           /\ IF r.ok THEN Acquired(c, "Lock") ELSE UNCHANGED cs
    /\ UNCHANGED <<queueVars, radioVars, pairVars, commitVars, irqVars, fireVars, frzVars, hwVars, apiVars, cntVars, confVars, waitVars>>

\* release(token): a reentrant token returns at once, any other unlocks.
Release(c) ==
    /\ cs[c].pc = "idle"
    /\ Inside(c)
    /\ LET n     == Len(cs[c].held)
           token == cs[c].held[n]
       IN  IF is_reentry(token)
           THEN /\ cs' = [cs EXCEPT ![c].held = SubSeq(@, 1, n - 1),
                                    ![c].released = "reentrant"]
                /\ UNCHANGED owner
           ELSE /\ owner' = unlock
                /\ cs' = [cs EXCEPT ![c].held = SubSeq(@, 1, n - 1),
                                    ![c].released = "unlocked",
                                    ![c].tkn = token,
                                    ![c].pc = "restore"]
    /\ UNCHANGED <<queueVars, radioVars, pairVars, commitVars, irqVars, fireVars, frzVars, hwVars, apiVars, cntVars, confVars, waitVars>>

\* A release that unmasks the interrupts whatever the token holds.
RestorePsUnmasked(c) ==
    /\ cs[c].pc = "restore"
    /\ cs' = [cs EXCEPT ![c].pc = "idle", ![c].ps = 0]
    /\ UNCHANGED <<queueVars, radioVars, pairVars, commitVars, irqVars, fireVars, frzVars, hwVars, apiVars, cntVars, confVars, waitVars, owner>>

\* release(token): "wsr.ps {0}" restores the interrupt level of the token.
RestorePs(c) ==
    /\ cs[c].pc = "restore"
    /\ cs' = [cs EXCEPT ![c].pc = "idle", ![c].ps = cs[c].tkn.ps]
    /\ UNCHANGED <<queueVars, radioVars, pairVars, commitVars, irqVars, fireVars, frzVars, hwVars, apiVars, cntVars, confVars, waitVars, owner>>

InitLockUnit ==
    /\ InitHw
    /\ chip = "narrow"
    /\ ~overflow_checks
    /\ count = Zero64
    /\ InitApi
    /\ InitCnt
    /\ InitShared
    /\ InitWait
    /\ OwnAlarms

NextLockUnit ==
    \/ \E c \in Cores : Acquire(c)
    \/ \E c \in Cores : TryLock(c)
    \/ \E c \in Cores : LoadOwner(c)
    \/ \E c \in Cores : SpinLock(c)
    \/ \E c \in Cores : Release(c)
    \/ \E c \in Cores : RestorePs(c)

SpecLock == InitLockUnit /\ [][NextLockUnit]_vars

\* C17: at most one core is inside the critical section, and the owner field
\* holds the identity of the core inside, or the unused sentinel when no core
\* is inside.
C17_OneCoreInside ==
    /\ \A c, d \in Cores : (Inside(c) /\ Inside(d)) => c = d
    /\ \A c \in Cores : Inside(c) => owner = thread_id(c)
    /\ (\A c \in Cores : ~Inside(c)) => owner = UNUSED_THREAD_ID_VALUE

\* One core is inside while the other spins for the lock.
C17_OtherCoreSpins ==
    \E c, d \in Cores : Inside(c) /\ cs[d].pc = "spin" /\ cs[d].spun

\* The lock goes from owned to free.
Freed == owner # UNUSED_THREAD_ID_VALUE /\ owner' = UNUSED_THREAD_ID_VALUE

\* C18: a core that owns the lock acquires it again with Reentry and without
\* spinning, the release of a reentrant token leaves the lock with its owner,
\* and the lock is freed only by the release of the outermost token.
C18_ReentrantForOwner ==
    /\ [](\A c \in Cores :
            /\ \A i \in DOMAIN cs[c].held : cs[c].held[i].reentry = (i > 1)
            /\ Inside(c) => (cs[c].pc # "spin" /\ is_owned_by_current_thread(c)))
    /\ [][Freed => \E c \in Cores : Len(cs[c].held) = 1 /\ cs'[c].held = <<>>]_vars

\* A core took the lock a second time and has released the reentrant token:
\* it is still inside and still the owner.
C18_InnerReleased ==
    \E c \in Cores :
        /\ cs[c].kind = "Reentry" /\ ~cs[c].spun /\ cs[c].released = "reentrant"
        /\ Len(cs[c].held) = 1 /\ owner = thread_id(c)

\* ------------------------------------------------------------ freezing a unit
\*
\* FrozenUnit::new takes the unit by unique reference for 'd and keeps a
\* shared one; every Alarm copies that shared reference.  Unit::set_count
\* takes &self: the caller needs a reference to the unit, which it has unless
\* the unit is uniquely borrowed.

\* A FrozenUnit::new taking the unit by shared reference.
FrozenUnit_new_shared == "shared"

\* FrozenUnit::new(unit: &'d mut U): the borrow it takes on the unit
FrozenUnit_new == "mut"

\* The alarms built from the FrozenUnit and not dropped.
LiveAlarms == {ch \in Channels : built[ch] = "live"}

\* The borrow of 'd ends with the last value that holds it.
Borrow(frozen, b) ==
    IF frozen \/ (\E ch \in Channels : b[ch] = "live") THEN unit0 ELSE "none"

\* FrozenUnit::new: the caller holds the unit with no borrow outstanding, and
\* no call on it is in progress.
Freeze ==
    /\ unit0 = "none"
    /\ ld.pc = "idle"
    /\ unit0' = FrozenUnit_new
    /\ frozen_unit' = TRUE
    /\ UNCHANGED <<queueVars, radioVars, pairVars, commitVars, irqVars, fireVars, hwVars, apiVars, cntVars, confVars, waitVars, lockVars, built>>

\* Alarm::new(comparator, &unit): the comparator is moved into the alarm.
AlarmNew(ch) ==
    /\ frozen_unit
    /\ built[ch] = "no"
    /\ built' = [built EXCEPT ![ch] = "live"]
    /\ UNCHANGED <<queueVars, radioVars, pairVars, commitVars, irqVars, fireVars, hwVars, apiVars, cntVars, confVars, waitVars, lockVars, unit0, frozen_unit>>

\* An alarm is dropped, and its comparator with it.
AlarmDrop(ch) ==
    /\ built[ch] = "live"
    /\ built' = [built EXCEPT ![ch] = "dropped"]
    /\ unit0' = Borrow(frozen_unit, built')
    /\ UNCHANGED <<queueVars, radioVars, pairVars, commitVars, irqVars, fireVars, hwVars, apiVars, cntVars, confVars, waitVars, lockVars, frozen_unit>>

\* The FrozenUnit is dropped.
FrozenDrop ==
    /\ frozen_unit
    /\ frozen_unit' = FALSE
    /\ unit0' = Borrow(FALSE, built)
    /\ UNCHANGED <<queueVars, radioVars, pairVars, commitVars, irqVars, fireVars, hwVars, apiVars, cntVars, confVars, waitVars, lockVars, built>>

\* unit.set_count(value) by the holder of the unit: &self needs the unit not
\* to be uniquely borrowed.
UnitSetCount(value) ==
    /\ unit0 # "mut"
    /\ SetCountCall(value)

InitFreeze == InitCount /\ chip = "narrow"

NextFreeze ==
    \/ Freeze
    \/ \E ch \in Channels : AlarmNew(ch)
    \/ \E ch \in Channels : AlarmDrop(ch)
    \/ FrozenDrop
    \/ \E v \in LoadValues : UnitSetCount(v)
    \/ SetCountHi
    \/ SetCountLo
    \/ SetCountLoad
    \/ CountTick

SpecFreeze == InitFreeze /\ [][NextFreeze]_vars

\* C15: while an alarm built from the frozen unit exists, no set_count of the
\* unit is in progress or begins, and the counter changes by hardware ticks
\* only.
C15_NoReloadWhileAlarmsLive ==
    /\ [](LiveAlarms # {} => ld.pc = "idle")
    /\ [][LiveAlarms # {} => (ld' = ld /\ count' \in {count, NextCount(count)})]_vars

\* Two alarms share the frozen unit, the counter has ticked, and the holder of
\* the unit has not made the set_count call it may make.
C15_TwoAlarmsShareUnit ==
    /\ Cardinality(LiveAlarms) >= 2
    /\ unit0 = "mut"
    /\ nticks > 0
    /\ ld.calls < MaxLoads

\* ------------------------------------------------------------ comparators firing
\*
\* Two alarms on the frozen unit 0, as in the tests of hil-test: alarm0 on
\* comparator 0 is a one-shot (Target mode), alarm1 on comparator 1 is periodic.
\* The main program sets them up inside a critical section and then idles; it
\* either binds a handler to each alarm, or binds none and polls the flags.
\* The hardware is the comparators: an enabled comparator in Target mode sets
\* its bit of INT_RAW on the tick that brings the counter to its target, one
\* in Period mode every PERIOD ticks.

\* The one-shot timeout and the period, in microseconds.
OneShotUs == 2

PeriodUs == 1

\* Microseconds the counter runs after the setup.
MaxMicros == 3

\* Hardware ticks during the setup.
MaxSetupTicks == 2

\* clear_interrupt calls of the polling main program.
MaxClears == 2

\* A duration of a few microseconds as a MicrosDurationU64.
Micros(us) == <<0, 0, 0, us>>

\* The ticks of a duration, as a number.
TicksOf(us) == us * TicksPerUs(chip)

\* The PERIOD field of TARGETx_CONF, as a number.
PeriodTicks(R, ch) == R.tc[ch].period[1] * (LimbMax + 1) + R.tc[ch].period[2]

\* The mode and timeout the test gives every alarm.
ModeOf(ch) == IF ch = 0 THEN "Target" ELSE "Period"

TimeoutOf(ch) == IF ch = 0 THEN OneShotUs ELSE PeriodUs

\* What the scenario leaves alone.
FireFrame ==
    UNCHANGED <<queueVars, radioVars, pairVars, commitVars, irqVars, chip, overflow_checks, apiVars, cntVars, confVars, lockVars, frzVars,
                INT_ENA_LOCK, WAKERS, alarm_of, wt, hd, usr, want_ena, latest, nfires>>

\* The step of the main program after pc.
AfterStep(pc) ==
    CASE pc = "bind0"  -> "sched0"
      [] pc = "sched0" -> IF main.handled THEN "ena0" ELSE "sched1"
      [] pc = "ena0"   -> "bind1"
      [] pc = "bind1"  -> "sched1"
      [] pc = "sched1" -> IF main.handled THEN "ena1" ELSE "done"
      [] pc = "ena1"   -> "done"
      [] OTHER         -> "done"

StepName(kind, ch) == IF ch = 0 THEN kind \o "0" ELSE kind \o "1"

\* alarm.set_interrupt_handler(handler): the interrupt is bound and enabled
\* on this core.
Bind(ch) ==
    /\ main.pc = StepName("bind", ch)
    /\ bound' = [bound EXCEPT ![ch] = TRUE]
    /\ main' = [main EXCEPT !.pc = AfterStep(main.pc)]
    /\ UNCHANGED <<queueVars, radioVars, pairVars, commitVars, irqVars, count, conf, target_conf, trgt, int_ena, int_raw, cmp, isr>>
    /\ FireFrame

\* The alarm is scheduled: enable_auto_reload, load_value and start, without
\* a tick in between.  The comparator takes the new period.
Schedule(ch) ==
    /\ main.pc = StepName("sched", ch)
    /\ LET R1 == enable_auto_reload(Regs, ch, ModeOf(ch) = "Period")
           o  == load_value(R1, ch, Micros(TimeoutOf(ch)), count)
           R2 == start(o.R, ch)
       IN  /\ o.result = "Ok"
           /\ conf' = R2.cf
           /\ target_conf' = R2.tc
           /\ trgt' = R2.tg
           /\ cmp' = [cmp EXCEPT ![ch] = [sched |-> TRUE, us |-> TimeoutOf(ch),
                                          left |-> PeriodTicks(R2, ch), elapsed |-> 0,
                                          matches |-> 0, seen |-> 0]]
    /\ main' = [main EXCEPT !.pc = AfterStep(main.pc)]
    /\ UNCHANGED <<queueVars, radioVars, pairVars, commitVars, irqVars, count, int_ena, int_raw, bound, isr>>
    /\ FireFrame

\* alarm.enable_interrupt(true)
EnableInterrupt(ch) ==
    /\ main.pc = StepName("ena", ch)
    /\ int_ena' = enable_interrupt(int_ena, ch, TRUE)
    /\ main' = [main EXCEPT !.pc = AfterStep(main.pc)]
    /\ UNCHANGED <<queueVars, radioVars, pairVars, commitVars, irqVars, count, conf, target_conf, trgt, int_raw, bound, cmp, isr>>
    /\ FireFrame

\* The comparator matches on the tick that takes the counter to next.
Matches(ch, next) ==
    /\ is_enabled(Regs, ch)
    /\ IF mode(Regs, ch) = "Period"
       THEN cmp[ch].left = 1
       ELSE actual_target(Regs, ch) = next

\* One tick of the counter of unit 0, seen by every comparator.
FireTick ==
    /\ IF main.pc = "done"
       THEN /\ main.run_ticks < TicksOf(MaxMicros)
            /\ main' = [main EXCEPT !.run_ticks = @ + 1]
       ELSE /\ main.setup_ticks < MaxSetupTicks
            /\ main' = [main EXCEPT !.setup_ticks = @ + 1]
    /\ LET next == NextCount(count)
       IN  /\ count' = next
           /\ int_raw' = [ch \in Channels |-> int_raw[ch] \/ Matches(ch, next)]
           /\ cmp' = [ch \in Channels |->
                 [cmp[ch] EXCEPT
                    !.left = IF is_enabled(Regs, ch) /\ mode(Regs, ch) = "Period"
                             THEN (IF @ = 1 THEN PeriodTicks(Regs, ch) ELSE @ - 1)
                             ELSE @,
                    !.elapsed = IF cmp[ch].sched THEN @ + 1 ELSE @,
                    !.matches = IF Matches(ch, next) THEN @ + 1 ELSE @]]
    /\ UNCHANGED <<queueVars, radioVars, pairVars, commitVars, irqVars, conf, target_conf, trgt, int_ena, bound, isr>>
    /\ FireFrame

\* An intermediate handler that calls the handler whatever INT_RAW holds.
handle_interrupt_always(ch) == TRUE

\* _handle_interrupt::<CH> of the esp32s2: the handler is called if the bit
\* of its comparator is set in INT_RAW.
handle_interrupt(ch) == int_raw[ch]

\* The interrupt of comparator ch is taken.  It is level triggered on the
\* status of its comparator; on the esp32s2 every bound handler is entered
\* when any of the interrupts is raised, through _handle_interrupt.
Dispatched(ch) ==
    /\ bound[ch]
    /\ IF chip = "wide"
       THEN (\E c \in Channels : int_raw[c] /\ int_ena[c]) /\ handle_interrupt(ch)
       ELSE int_raw[ch] /\ int_ena[ch]

\* The handler of alarm ch is invoked: the main program has left its critical
\* section and no handler of the same priority is running.
HandlerInvoke(ch) ==
    /\ main.pc = "done"
    /\ isr.pc = "idle"
    /\ Dispatched(ch)
    /\ isr' = [isr EXCEPT !.pc = "running", !.ch = ch, !.runs[ch] = @ + 1]
    /\ UNCHANGED <<queueVars, radioVars, pairVars, commitVars, irqVars, count, conf, target_conf, trgt, int_ena, int_raw, bound, cmp, main>>
    /\ FireFrame

\* The handler calls clear_interrupt on its alarm and returns.
HandlerClear ==
    /\ isr.pc = "running"
    /\ int_raw' = clear_interrupt(int_raw, isr.ch)
    /\ cmp' = [cmp EXCEPT ![isr.ch].seen = cmp[isr.ch].matches]
    /\ isr' = [isr EXCEPT !.pc = "idle"]
    /\ UNCHANGED <<queueVars, radioVars, pairVars, commitVars, irqVars, count, conf, target_conf, trgt, int_ena, bound, main>>
    /\ FireFrame

\* The polling main program calls clear_interrupt on an alarm whose flag it
\* found set.
PollClear(ch) ==
    /\ main.pc = "done"
    /\ ~main.handled
    /\ main.clears < MaxClears
    /\ is_interrupt_set(ch)
    /\ int_raw' = clear_interrupt(int_raw, ch)
    /\ cmp' = [cmp EXCEPT ![ch].seen = cmp[ch].matches]
    /\ main' = [main EXCEPT !.clears = @ + 1]
    /\ UNCHANGED <<queueVars, radioVars, pairVars, commitVars, irqVars, count, conf, target_conf, trgt, int_ena, bound, isr>>
    /\ FireFrame

InitFire ==
    /\ InitHw
    /\ ~overflow_checks
    /\ InitApi
    /\ InitCnt
    /\ InitWait
    /\ OwnAlarms
    /\ cx = [c \in Contexts |-> IdleContext]
    /\ CONF_LOCK = "none"
    /\ want = InitConf
    /\ owner = UNUSED_THREAD_ID_VALUE
    /\ cs = [c \in Cores |-> IdleCore]
    /\ unit0 = FrozenUnit_new
    /\ frozen_unit = TRUE
    /\ built = [ch \in Channels |-> IF ch \in Alarms THEN "live" ELSE "no"]
    /\ cmp = [ch \in Channels |-> IdleComparator]
    /\ isr = IdleIsr
    /\ \E h \in BOOLEAN :
          main = [pc |-> IF h THEN "bind0" ELSE "sched0", handled |-> h,
                  setup_ticks |-> 0, run_ticks |-> 0, clears |-> 0]

NextFire ==
    \/ \E ch \in Alarms : Bind(ch)
    \/ \E ch \in Alarms : Schedule(ch)
    \/ \E ch \in Alarms : EnableInterrupt(ch)
    \/ FireTick
    \/ \E ch \in Alarms : HandlerInvoke(ch)
    \/ HandlerClear
    \/ \E ch \in Alarms : PollClear(ch)

SpecFire == InitFire /\ [][NextFire]_vars

\* The matches the schedule of comparator ch calls for after its elapsed
\* ticks: one at the timeout in Target mode, one per period in Period mode.
MatchesDue(ch) ==
    IF ModeOf(ch) = "Period"
    THEN cmp[ch].elapsed \div TicksOf(cmp[ch].us)
    ELSE IF cmp[ch].elapsed >= TicksOf(cmp[ch].us) THEN 1 ELSE 0

\* A call of clear_interrupt on the alarm of comparator ch.
ClearedStep(ch) ==
    \/ isr.pc = "running" /\ isr.ch = ch /\ isr'.pc = "idle"
    \/ main'.clears = main.clears + 1 /\ cmp'[ch].seen # cmp[ch].seen

\* C12: the flags of two comparators on one frozen unit are independent.
\* Each comparator has matched as often as its own schedule calls for (the
\* periodic one after every period, the one-shot once after its timeout, twice
\* the period), is_interrupt_set of an alarm is true exactly when its
\* comparator has matched since the alarm's last clear_interrupt, and
\* clear_interrupt makes the flag of its own alarm false and changes no other.
C12_FlagsIndependent ==
    /\ [](\A ch \in Alarms :
            cmp[ch].sched =>
               /\ cmp[ch].matches = MatchesDue(ch)
               /\ is_interrupt_set(ch) = (cmp[ch].matches > cmp[ch].seen))
    /\ [][\A ch \in Alarms :
            ClearedStep(ch) =>
               /\ ~is_interrupt_set(ch)'
               /\ \A c \in Channels \ {ch} : int_raw'[c] = int_raw[c]]_vars

\* The polling program has cleared the flag of the one-shot after its timeout
\* while the flag of the periodic alarm, set since its first period, stays set.
C12_OneShotClearedPeriodicSet ==
    /\ ~main.handled
    /\ cmp[0].matches = 1 /\ cmp[0].seen = 1 /\ ~is_interrupt_set(0)
    /\ cmp[1].matches >= 2 /\ cmp[1].seen = 0 /\ is_interrupt_set(1)

\* The counter ticks, a raised interrupt is taken, a handler runs to its end.
SpecFireLive ==
    /\ SpecFire
    /\ WF_vars(FireTick)
    /\ \A ch \in Alarms : SF_vars(HandlerInvoke(ch))
    /\ WF_vars(HandlerClear)

\* The one-shot alarm has its handler bound, is scheduled and has its
\* interrupt enabled, and the main program has left its critical section.
OneShotArmed ==
    /\ main.pc = "done" /\ main.handled
    /\ bound[0] /\ int_ena[0] /\ is_running(Regs, 0) /\ mode(Regs, 0) = "Target"

\* C19: the handler of a one-shot alarm that is bound, scheduled and has its
\* interrupt enabled is eventually invoked, and not before the counter has
\* reached the target.
C19_OneShotHandlerInvoked ==
    /\ [](isr.runs[0] > 0 => cmp[0].elapsed >= TicksOf(OneShotUs))
    /\ OneShotArmed ~> (isr.runs[0] > 0)

\* The handler of the one-shot alarm runs, the counter being at the target or
\* just past it.
C19_HandlerRunning ==
    /\ OneShotArmed
    /\ isr.pc = "running" /\ isr.ch = 0 /\ isr.runs[0] = 1
    /\ cmp[0].matches = 1

\* C20: the handler of the one-shot alarm is invoked at most once, however
\* often the periodic alarm of the other comparator fires and is cleared.
C20_OneShotHandledOnce == isr.runs[0] <= 1

\* The periodic alarm was handled before and after the one-shot was handled once.
C20_PeriodicKeepsFiring ==
    /\ isr.runs[0] = 1 /\ ~is_interrupt_set(0)
    /\ isr.runs[1] >= 3 /\ cmp[1].seen >= 3

\* ------------------------------------------------------------ stopping an alarm somebody waits on
\*
\* The tasks of core 0 wait on their alarms while the task of core 1 stops
\* and starts the alarms.  The comparators run at first, and only a running
\* comparator matches.

\* The comparator of a running alarm matches.
Match(ch) ==
    /\ is_enabled(Regs, ch)
    /\ Fire(ch)

InitStop ==
    /\ chip = "narrow"
    /\ overflow_checks = FALSE
    /\ count = Zero64
    /\ LET R == FoundRegs(TRUE, TRUE, "Target", "Target")
       IN  conf = R.cf /\ target_conf = R.tc /\ trgt = R.tg
    /\ InitApi
    /\ InitCnt
    /\ InitShared
    /\ InitWait
    /\ alarm_of \in {[w \in Waiters |-> 0], [w \in Waiters |-> IF w = "a" THEN 0 ELSE 1]}

NextStop ==
    \/ \E w \in Waiters : WaitClearInterrupt(w)
    \/ \E w \in Waiters : WaitBind(w)
    \/ \E w \in Waiters : WaitAcquire(w)
    \/ \E w \in Waiters : WaitRead(w)
    \/ \E w \in Waiters : WaitWrite(w)
    \/ \E w \in Waiters : WaitRelease(w)
    \/ \E w \in Waiters : PollRegister(w)
    \/ \E w \in Waiters : PollCheck(w)
    \/ \E w \in Waiters : Resume(w)
    \/ \E ch \in Alarms : Match(ch)
    \/ \E ch \in Alarms : HandlerEnter(ch)
    \/ HandlerAcquire
    \/ HandlerRead
    \/ HandlerWrite
    \/ HandlerRelease
    \/ HandlerWake
    \/ \E ch \in Alarms : Stop(ch)
    \/ \E ch \in Alarms : Start(ch)

SpecStop == InitStop /\ [][NextStop]_vars

\* Task w is suspended in wait() on an alarm that is stopped and has not
\* fired: its waker was not woken, the flag of its comparator is not raised
\* and no handler is running for it.
SuspendedOnStopped(w) ==
    /\ wt[w].pc = "pending" /\ ~wt[w].woken
    /\ ~is_running(Regs, alarm_of[w])
    /\ ~is_interrupt_set(alarm_of[w])
    /\ ~(hd.pc # "idle" /\ hd.ch = alarm_of[w])

\* A call of stop().
StopStep == nops' = nops + 1 /\ last'.op = "stop"

\* C16: stop() leaves the alarm not running and touches neither the wakers,
\* the tasks waiting, INT_ENA nor INT_RAW; a task suspended in wait() on an
\* alarm stopped before it fired stays suspended for as long as the alarm is
\* not started again.
C16_StoppedAlarmNeverResumes ==
    /\ [][StopStep =>
            /\ ~is_running(Regs, last.ch)'
            /\ WAKERS' = WAKERS /\ wt' = wt /\ int_ena' = int_ena /\ int_raw' = int_raw]_vars
    /\ [][\A w \in Waiters :
            (SuspendedOnStopped(w) /\ ~is_running(Regs, alarm_of[w])')
               => SuspendedOnStopped(w)']_vars

\* A task is suspended on the alarm the last call stopped; its interrupt is
\* still enabled and the comparators could still match.
C16_SuspendedAfterStop ==
    \E w \in Waiters :
        /\ SuspendedOnStopped(w)
        /\ last.op = "stop" /\ last.ch = alarm_of[w]
        /\ int_ena[alarm_of[w]] /\ WAKERS[alarm_of[w]] = w
        /\ nfires < MaxFires

\* ------------------------------------------------------------ a periodic alarm with a handler
\*
\* The scenario of periodic_interrupt_is_handled: the handler of the periodic
\* alarm clears the interrupt and returns well within one period.

\* The next tick would make comparator ch match while the interrupt of its
\* previous match is still waiting for, or in, its handler.
Overrun(ch) ==
    /\ main.handled
    /\ is_interrupt_set(ch)
    /\ Matches(ch, NextCount(count))

\* A tick of the counter, the handlers being faster than a period.
PromptTick ==
    /\ \A ch \in Alarms : ~Overrun(ch)
    /\ FireTick

NextFirePrompt ==
    \/ \E ch \in Alarms : Bind(ch)
    \/ \E ch \in Alarms : Schedule(ch)
    \/ \E ch \in Alarms : EnableInterrupt(ch)
    \/ PromptTick
    \/ \E ch \in Alarms : HandlerInvoke(ch)
    \/ HandlerClear
    \/ \E ch \in Alarms : PollClear(ch)

SpecFirePrompt ==
    /\ InitFire
    /\ [][NextFirePrompt]_vars
    /\ WF_vars(PromptTick)
    /\ \A ch \in Alarms : SF_vars(HandlerInvoke(ch))
    /\ WF_vars(HandlerClear)

\* The periodic alarm has its handler bound, was started once and has its
\* interrupt enabled, and the main program has left its critical section.
PeriodicArmed ==
    /\ main.pc = "done" /\ main.handled
    /\ bound[1] /\ int_ena[1] /\ cmp[1].sched /\ is_running(Regs, 1)

\* The handler of comparator ch is waiting to be entered.
Pending(ch) == is_interrupt_set(ch) /\ ~(isr.pc = "running" /\ isr.ch = ch)

\* C21: a Period-mode alarm that is started once and whose handler clears the
\* interrupt has its handler invoked repeatedly without being rescheduled:
\* once the alarm is scheduled its registers are never written again, the
\* handler has been invoked once for every period that has elapsed (the
\* latest one may still be pending), and it is invoked at least twice.
C21_PeriodicHandlerRepeats ==
    /\ [][cmp[1].sched =>
            /\ target_conf'[1] = target_conf[1]
            /\ trgt'[1] = trgt[1]
            /\ conf' = conf]_vars
    /\ [](PeriodicArmed =>
            /\ cmp[1].matches = cmp[1].elapsed \div TicksOf(PeriodUs)
            /\ cmp[1].matches = isr.runs[1] + (IF Pending(1) THEN 1 ELSE 0))
    /\ PeriodicArmed ~> (isr.runs[1] >= 2)

\* The handler of the periodic alarm runs for the second time, two periods
\* after the only call of load_value.
C21_SecondInvocation ==
    /\ PeriodicArmed
    /\ isr.pc = "running" /\ isr.ch = 1 /\ isr.runs[1] = 2
    /\ cmp[1].matches = 2
    /\ cmp[1].elapsed >= 2 * TicksOf(PeriodUs)

\* ------------------------------------------------------------ routing the interrupt of a comparator
\*
\* set_interrupt_handler, called from either core for the comparators the
\* alarms use, and the dispatch of the interrupts SYSTIMER_TARGETx.  The
\* interrupt controller (bind, enable, disable) is the consumed interface of
\* the driver; the esp32s2 has one core.

\* The handlers the application passes, and their priorities.
Handlers == {"h1", "h2"}

Priorities == {1, 2}

\* The cores of the chip.
CoresOf(c) == IF c = "wide" THEN {"ProCpu"} ELSE Cores

\* crate::Cpu::other(): the cores other than the one executing.
Cpu_other(core) == CoresOf(chip) \ {core}

\* crate::interrupt::disable(core, interrupt)
interrupt_disable(E, core, interrupt) == [E EXCEPT ![core][interrupt] = 0]

\* interrupt::bind_interrupt(interrupt, handler)
bind_interrupt(V, interrupt, handler) == [V EXCEPT ![interrupt] = handler]

\* interrupt::enable(interrupt, priority): on the executing core.
interrupt_enable(E, core, interrupt, priority) == [E EXCEPT ![core][interrupt] = priority]

\* _handle_interrupt::<CH>, the intermediate handler of the esp32s2.
intermediate(ch) ==
    CASE ch = 0 -> "_handle_interrupt::<0>"
      [] ch = 1 -> "_handle_interrupt::<1>"
      [] OTHER  -> "_handle_interrupt::<2>"

Intermediates == {intermediate(ch) : ch \in Channels}

\* The CH of an intermediate handler.
CH(fn) == CHOOSE ch \in Channels : intermediate(ch) = fn

\* A set_interrupt_handler that leaves the interrupt enabled on the other cores.
set_interrupt_handler_all_cores(S, core, ch, handler, priority) ==
    [en  |-> interrupt_enable(S.en, core, ch, priority),
     vec |-> bind_interrupt(S.vec, ch, IF chip = "wide" THEN intermediate(ch) ELSE handler),
     hs  |-> IF chip = "wide" THEN [S.hs EXCEPT ![ch] = handler] ELSE S.hs]

\* Comparator::set_interrupt_handler, called on core for comparator ch.
set_interrupt_handler(S, core, ch, handler, priority) ==
    LET others == Cpu_other(core)
        E1 == [c \in Cores |-> IF c \in others THEN interrupt_disable(S.en, c, ch)[c]
                                               ELSE S.en[c]]
    IN  [en  |-> interrupt_enable(E1, core, ch, priority),
         vec |-> bind_interrupt(S.vec, ch, IF chip = "wide" THEN intermediate(ch) ELSE handler),
         hs  |-> IF chip = "wide" THEN [S.hs EXCEPT ![ch] = handler] ELSE S.hs]

\* A lookup that takes the handler of comparator 0 whatever the channel.
registered_first(H, ch) == H[0]

\* HANDLERS[CH as usize]
registered(H, ch) == H[ch]

\* What a call of the function bound to an interrupt invokes: a handler of
\* the application directly, or through _handle_interrupt::<CH>.
Calls(fn) ==
    IF fn \in Intermediates
    THEN IF handle_interrupt(CH(fn)) /\ registered(HANDLERS, CH(fn)) # "none"
         THEN {registered(HANDLERS, CH(fn))}
         ELSE {}
    ELSE {fn}

IrqFrame ==
    UNCHANGED <<queueVars, radioVars, pairVars, commitVars, hwVars, apiVars, cntVars, confVars, lockVars, frzVars, fireVars,
                INT_ENA_LOCK, WAKERS, alarm_of, wt, hd, usr, want_ena, latest, nfires>>

\* comparator.set_interrupt_handler(handler) on a core.
SetInterruptHandler(core, ch, handler, priority) ==
    /\ core \in CoresOf(chip)
    /\ LET S == set_interrupt_handler([en |-> enabled_on, vec |-> vector, hs |-> HANDLERS],
                                      core, ch, handler, priority)
       IN  /\ enabled_on' = S.en
           /\ vector' = S.vec
           /\ HANDLERS' = S.hs
    /\ binding' = [binding EXCEPT ![ch] =
                      [core |-> core, handler |-> handler, priority |-> priority]]
    /\ bound' = [bound EXCEPT ![ch] = TRUE]
    /\ UNCHANGED <<queueVars, radioVars, pairVars, commitVars, int_ena, int_raw, invoked>>
    /\ IrqFrame

\* The comparator matches: the hardware sets its bit of INT_RAW.
Raise(ch) ==
    /\ ~int_raw[ch]
    /\ int_raw' = [int_raw EXCEPT ![ch] = TRUE]
    /\ UNCHANGED <<queueVars, radioVars, pairVars, commitVars, int_ena, bound, irqVars>>
    /\ IrqFrame

\* alarm.clear_interrupt()
ClearInterrupt(ch) ==
    /\ int_raw[ch]
    /\ int_raw' = clear_interrupt(int_raw, ch)
    /\ UNCHANGED <<queueVars, radioVars, pairVars, commitVars, int_ena, bound, irqVars>>
    /\ IrqFrame

\* alarm.enable_interrupt(state)
SetInterruptEnable(ch, state) ==
    /\ int_ena[ch] # state
    /\ int_ena' = enable_interrupt(int_ena, ch, state)
    /\ UNCHANGED <<queueVars, radioVars, pairVars, commitVars, int_raw, bound, irqVars>>
    /\ IrqFrame

\* The interrupt controller signals SYSTIMER_TARGETx: the line of the
\* comparator is raised and enabled, or, on the esp32s2 whose comparators share
\* one edge-triggered line, the line of any comparator.
Signalled(ch) ==
    IF chip = "wide"
    THEN \E c \in Channels : int_raw[c] /\ int_ena[c]
    ELSE int_raw[ch] /\ int_ena[ch]

\* A core takes the interrupt SYSTIMER_TARGETx and calls what is bound to it.
Dispatch(core, ch) ==
    /\ core \in CoresOf(chip)
    /\ enabled_on[core][ch] > 0
    /\ vector[ch] # "none"
    /\ Signalled(ch)
    /\ invoked' = [core |-> core, ch |-> ch, raw |-> int_raw[ch], calls |-> Calls(vector[ch])]
    /\ UNCHANGED <<queueVars, radioVars, pairVars, commitVars, int_ena, int_raw, bound, vector, HANDLERS, enabled_on, binding>>
    /\ IrqFrame

InitIrq == Init /\ ~overflow_checks

NextIrq ==
    \/ \E core \in Cores, ch \in Alarms, handler \in Handlers, priority \in Priorities :
          SetInterruptHandler(core, ch, handler, priority)
    \/ \E ch \in Alarms : Raise(ch)
    \/ \E ch \in Alarms : ClearInterrupt(ch)
    \/ \E ch \in Alarms, state \in BOOLEAN : SetInterruptEnable(ch, state)
    \/ \E core \in Cores, ch \in Alarms : Dispatch(core, ch)

SpecIrq == InitIrq /\ [][NextIrq]_vars

\* The handler a dispatch of SYSTIMER_TARGETx reaches.
Routed(ch) == IF vector[ch] \in Intermediates THEN HANDLERS[CH(vector[ch])] ELSE vector[ch]

\* C22: after any sequence of set_interrupt_handler calls on a comparator,
\* the one handler routed for its channel is the handler of the most recent
\* call, and the interrupt of the channel is enabled on the core of that call
\* at the priority of the handler and disabled on every other core; a
\* dispatch of the interrupt runs on that core and invokes no other handler.
C22_LastBindingRouted ==
    /\ [](\A ch \in Channels :
            IF binding[ch] = NoBinding
            THEN vector[ch] = "none" /\ \A c \in Cores : enabled_on[c][ch] = 0
            ELSE /\ Routed(ch) = binding[ch].handler
                 /\ \A c \in Cores :
                      enabled_on[c][ch] =
                         IF c = binding[ch].core THEN binding[ch].priority ELSE 0)
    /\ [][\A core \in Cores, ch \in Channels :
            (invoked' # invoked /\ invoked'.core = core /\ invoked'.ch = ch) =>
               /\ core = binding[ch].core
               /\ invoked'.calls \subseteq {binding[ch].handler}]_vars

\* Comparator 0 was bound on one core and rebound on the other with another
\* handler and priority, and the interrupt was dispatched to the new handler.
C22_ReboundOnOtherCore ==
    /\ binding[0] = [core |-> "AppCpu", handler |-> "h2", priority |-> 2]
    /\ enabled_on["ProCpu"][0] = 0
    /\ invoked = [core |-> "AppCpu", ch |-> 0, raw |-> TRUE, calls |-> {"h2"}]
    /\ binding[1] = [core |-> "ProCpu", handler |-> "h1", priority |-> 1]

\* C27: on the esp32s2, whose comparators share one edge-triggered line, the
\* dispatch routine of a channel invokes the handler registered for that
\* channel if the channel's bit of INT_RAW is set at dispatch time, and
\* nothing if the bit is clear; it never invokes the handler of another
\* channel, and it is bound only once a handler is registered for its channel.
C27_DispatchChecksRawBit ==
    /\ [](chip = "wide" =>
            \A ch \in Channels :
               /\ vector[ch] \in {"none", intermediate(ch)}
               /\ vector[ch] = intermediate(ch) =>
                     HANDLERS[ch] # "none" /\ HANDLERS[ch] = binding[ch].handler)
    /\ [][\A ch \in Channels :
            (chip = "wide" /\ invoked' # invoked /\ invoked'.ch = ch) =>
               invoked'.calls = IF int_raw[ch] THEN {binding[ch].handler} ELSE {}]_vars

\* The interrupt was raised by comparator 1 alone: the dispatch routine of
\* comparator 0 ran and invoked nothing, its own handler included.
C27_OtherChannelRaised ==
    /\ chip = "wide"
    /\ binding[0].handler = "h1" /\ binding[1].handler = "h2"
    /\ int_raw[1] /\ int_ena[1] /\ ~int_raw[0]
    /\ invoked = [core |-> "ProCpu", ch |-> 0, raw |-> FALSE, calls |-> {}]

\* C23: wait() completes only when the interrupt-enable bit of its channel
\* is clear.  A poll completes only from its check, and only if the bit is
\* clear at the check; a task polled while the bit is set (a false or early
\* wake-up) stays pending, and every poll registers the waker of the task
\* before it checks the bit, so the waker is registered again.
C23_CompletesOnlyWhenBitClear ==
    /\ [](\A w \in Waiters :
            wt[w].pc = "check" => WAKERS[alarm_of[w]] = w \/ latest[alarm_of[w]] # w)
    /\ [][\A w \in Waiters :
            LET ch == alarm_of[w] IN
            /\ (wt[w].pc # "done" /\ wt'[w].pc = "done") =>
                  wt[w].pc = "check" /\ ~int_ena[ch]
            /\ (wt[w].pc = "check" /\ wt'[w].pc # "check" /\ int_ena[ch]) =>
                  wt'[w].pc = "pending"
            /\ (wt[w].pc = "pending" /\ wt'[w].pc # "pending") =>
                  wt'[w].pc = "register"]_vars

\* A task was woken by the handler, found the enable bit set again at its
\* second poll, and is pending with its waker registered.
C23_EarlyWakeupStaysPending ==
    \E w \in Waiters :
        /\ wt[w].pc = "pending" /\ wt[w].polls = 2 /\ ~wt[w].woken
        /\ hd.woke = w /\ hd.pc = "idle"
        /\ int_ena[alarm_of[w]]
        /\ WAKERS[alarm_of[w]] = w

\* The steps of wait() in the order of the code: AlarmFuture::new, then polls.
StepAfter(pc) ==
    CASE pc = "init"     -> {"bind"}
      [] pc = "bind"     -> {"acquire"}
      [] pc = "acquire"  -> {"read"}
      [] pc = "read"     -> {"write"}
      [] pc = "write"    -> {"release"}
      [] pc = "release"  -> {"register"}
      [] pc = "register" -> {"check"}
      [] pc = "check"    -> {"pending", "done"}
      [] pc = "pending"  -> {"register"}
      [] OTHER           -> {}

\* C24: wait() performs its set-up in a fixed order.  Its first step clears
\* the pending interrupt flag, before the handler is bound; the handler is
\* bound before the interrupt is enabled; the interrupt is enabled before the
\* waker is registered for the first time; and in every
\* poll the waker is registered before the enable bit is checked.
C24_SetupOrder ==
    /\ [](\A w \in Waiters :
            /\ wt[w].pc \in {"acquire", "read", "write", "release", "register", "check",
                             "pending", "done"} => bound[alarm_of[w]]
            /\ wt[w].pc \in {"init", "bind", "acquire", "read", "write", "release"} =>
                  wt[w].polls = 0 /\ latest[alarm_of[w]] # w)
    /\ [][\A w \in Waiters :
            LET ch == alarm_of[w] IN
            wt'[w].pc # wt[w].pc =>
               /\ wt'[w].pc \in StepAfter(wt[w].pc)
               /\ wt[w].pc = "init" =>
                     ~int_raw'[ch] /\ bound' = bound /\ int_ena' = int_ena /\ WAKERS' = WAKERS
               /\ wt[w].pc = "bind" =>
                     bound'[ch] /\ int_ena' = int_ena /\ WAKERS' = WAKERS
               /\ wt[w].pc = "write" =>
                     int_ena'[ch] /\ WAKERS' = WAKERS
               /\ wt[w].pc = "register" =>
                     WAKERS'[ch] = w /\ wt'[w].polls = wt[w].polls + 1 /\ int_ena' = int_ena
               /\ wt[w].pc = "check" =>
                     wt[w].polls > 0 /\ WAKERS' = WAKERS]_vars

\* A task is about to check the enable bit in its first poll: the flag was
\* cleared, the handler is bound, the interrupt enabled, the waker registered.
C24_FirstPollRegistered ==
    \E w \in Waiters :
        /\ wt[w].pc = "check" /\ wt[w].polls = 1
        /\ ~int_raw[alarm_of[w]] /\ bound[alarm_of[w]] /\ int_ena[alarm_of[w]]
        /\ WAKERS[alarm_of[w]] = w

\* ------------------------------------------------------------ set_target, register write by register write
\*
\* One caller programs comparators that are enabled and in Target mode while
\* the counter runs.  The hardware is the comparator: on the chips that have
\* COMPx_LOAD it compares the counter with the target latched by the last
\* load strobe; the esp32s2 has no such register, its comparator compares the
\* counter with TARGETx_HI / TARGETx_LO as they are.

\* set_target calls, and ticks of the counter, in one behaviour.
MaxTargetCalls == 2

MaxTargetTicks == 3

\* The values passed to set_target, and the counter at the start.
CommitValues == {<<0, 2, 0, 5>>, <<0, 1, 0, 9>>}

CommitCounts == {<<0, 0, 0, 2>>, <<0, 1, 0, 2>>}

\* The target the comparator of ch compares the counter with.
Effective(ch) ==
    IF chip = "wide"
    THEN Join(trgt[ch].hi, trgt[ch].lo)
    ELSE Join(committed[ch].hi, committed[ch].lo)

CommitFrame ==
    UNCHANGED <<queueVars, radioVars, pairVars, chip, overflow_checks, conf, target_conf, apiVars, cntVars, confVars,
                waitVars, lockVars, frzVars, fireVars, irqVars>>

\* Comparator::set_target(value) is called.
SetTargetCall(ch, value) ==
    /\ st.pc = "idle"
    /\ st.calls < MaxTargetCalls
    /\ st' = [st EXCEPT !.pc = "hi", !.ch = ch, !.value = value, !.old = Effective(ch),
                        !.calls = @ + 1]
    /\ UNCHANGED <<queueVars, radioVars, pairVars, count, trgt, committed, matched, at>>
    /\ CommitFrame

\* target.hi().write(|w| w.hi().set((value >> 32) as u32))
SetTargetHi ==
    /\ st.pc = "hi"
    /\ trgt' = [trgt EXCEPT ![st.ch].hi = AndMask(Hi32(st.value), HiFieldMask(chip))]
    /\ st' = [st EXCEPT !.pc = "lo"]
    /\ UNCHANGED <<queueVars, radioVars, pairVars, count, committed, matched, at>>
    /\ CommitFrame

\* target.lo().write(|w| w.lo().set((value & 0xFFFF_FFFF) as u32)); on the
\* esp32s2 the call returns.
SetTargetLo ==
    /\ st.pc = "lo"
    /\ trgt' = [trgt EXCEPT ![st.ch].lo = AndMask(Lo32(st.value), LoFieldMask)]
    /\ st' = [st EXCEPT !.pc = IF chip = "wide" THEN "idle" ELSE "load"]
    /\ UNCHANGED <<queueVars, radioVars, pairVars, count, committed, matched, at>>
    /\ CommitFrame

\* comp_load.write(|w| w.load().set_bit()), cfg(not(esp32s2)): the comparator
\* latches the target.
SetTargetLoad ==
    /\ st.pc = "load"
    /\ committed' = [committed EXCEPT ![st.ch] = trgt[st.ch]]
    /\ st' = [st EXCEPT !.pc = "idle"]
    /\ UNCHANGED <<queueVars, radioVars, pairVars, count, trgt, matched, at>>
    /\ CommitFrame

\* One tick of the counter: an enabled comparator in Target mode matches
\* when the counter reaches the target it compares with.
CommitTick ==
    /\ st.ticks < MaxTargetTicks
    /\ st' = [st EXCEPT !.ticks = @ + 1]
    /\ count' = NextCount(count)
    /\ matched' =
          IF \E ch \in Alarms : is_enabled(Regs, ch) /\ Effective(ch) = NextCount(count)
          THEN LET ch == CHOOSE c \in Alarms :
                            is_enabled(Regs, c) /\ Effective(c) = NextCount(count)
               IN  [ch |-> ch, target |-> Effective(ch),
                    pc |-> IF st.ch = ch THEN st.pc ELSE "idle",
                    old |-> st.old, value |-> st.value]
          ELSE matched
    /\ UNCHANGED <<queueVars, radioVars, pairVars, trgt, committed, at>>
    /\ CommitFrame

InitCommit ==
    /\ chip \in Chips
    /\ overflow_checks = FALSE
    /\ count \in CommitCounts
    /\ LET R == FoundRegs(TRUE, TRUE, "Target", "Target")
       IN  conf = R.cf /\ target_conf = R.tc /\ trgt = R.tg
    /\ InitApi
    /\ InitCnt
    /\ InitShared
    /\ InitWait
    /\ OwnAlarms

NextCommit ==
    \/ \E ch \in Alarms, value \in CommitValues : SetTargetCall(ch, value)
    \/ SetTargetHi
    \/ SetTargetLo
    \/ SetTargetLoad
    \/ CommitTick

SpecCommit == InitCommit /\ [][NextCommit]_vars

\* C25: set_target writes the value registers first and asserts the commit
\* strobe last, and the comparator never matches against a half-written
\* target: a match during a call of set_target on the comparator is a match
\* of the target it had before the call, and every call ends with the strobe.
C25_NoHalfWrittenMatch ==
    /\ [](matched.pc \in {"lo", "load"} => matched.target = matched.old)
    /\ [][(st.pc = "lo" /\ st'.pc # "lo") => st'.pc = "load"]_vars

\* ------------------------------------------------------------ actual_target against set_target
\*
\* A second context reads the target back while the first one programs it:
\* the task of the other core on the chips that have two, whose reads
\* interleave with the writes, or an interrupt handler, which runs from its
\* call to its return between two writes of the interrupted set_target.

\* actual_target calls in one behaviour.
MaxTargetReads == 1

ReadFrame ==
    UNCHANGED <<queueVars, radioVars, pairVars, hwVars, committed, st, matched, apiVars, cntVars, confVars,
                waitVars, lockVars, frzVars, fireVars, irqVars>>

\* The last call of set_target was made on comparator ch and has returned.
Programmed(ch) == st.pc = "idle" /\ st.calls > 0 /\ st.ch = ch

\* No set_target call has been made since actual_target was called.
Undisturbed == st.pc = "idle" /\ st.calls = at.seen

\* Comparator::actual_target() is called on the other core.
ActualTargetCall(ch) ==
    /\ chip = "narrow"
    /\ at.pc = "idle"
    /\ at.reads < MaxTargetReads
    /\ at' = [at EXCEPT !.pc = "hi", !.ch = ch, !.quiet = Programmed(ch), !.expect = st.value,
                        !.seen = st.calls]
    /\ ReadFrame

\* let hi = target.hi().read().hi().bits();
ActualTargetHi ==
    /\ at.pc = "hi"
    /\ at' = [at EXCEPT !.pc = "lo", !.hi = trgt[at.ch].hi, !.quiet = @ /\ Undisturbed]
    /\ ReadFrame

\* let lo = target.lo().read().lo().bits(); ((hi as u64) << 32) | (lo as u64)
ActualTargetLo ==
    /\ at.pc = "lo"
    /\ at' = [at EXCEPT !.pc = "idle", !.result = Join(at.hi, trgt[at.ch].lo),
                        !.quiet = @ /\ Undisturbed, !.reads = @ + 1]
    /\ ReadFrame

\* An interrupt handler calls actual_target() and returns.
ActualTargetIsr(ch) ==
    /\ at.pc = "idle"
    /\ at.reads < MaxTargetReads
    /\ at' = [at EXCEPT !.ch = ch, !.hi = Hi32(actual_target(Regs, ch)),
                        !.result = actual_target(Regs, ch),
                        !.quiet = Programmed(ch), !.expect = st.value,
                        !.seen = st.calls, !.reads = @ + 1]
    /\ ReadFrame

NextReadTarget ==
    \/ \E ch \in Alarms, value \in CommitValues : SetTargetCall(ch, value)
    \/ SetTargetHi
    \/ SetTargetLo
    \/ SetTargetLoad
    \/ CommitTick
    \/ \E ch \in Alarms : ActualTargetCall(ch)
    \/ ActualTargetHi
    \/ ActualTargetLo
    \/ \E ch \in Alarms : ActualTargetIsr(ch)

SpecReadTarget == InitCommit /\ [][NextReadTarget]_vars

\* The value has the high half of one value passed to set_target and the low
\* half of another, and is neither.
Mixed(v) ==
    /\ v \notin CommitValues
    /\ \E a, b \in CommitValues : Hi32(v) = Hi32(a) /\ Lo32(v) = Lo32(b)

\* C26: actual_target needs no tear protection.  Called with no set_target
\* in progress it returns the value of the last set_target on its comparator,
\* and whatever set_target call runs in another context meanwhile, it never
\* returns a value that mixes the halves of two set_target calls.
C26_ActualTargetNeverTorn ==
    at.reads > 0 =>
       /\ ~Mixed(at.result)
       /\ at.quiet => at.result = at.expect

\* ------------------------------------------------------------ read_count on its own
\*
\* read_count called from every context while the counter runs and nobody
\* reloads it.  The hardware serves every update strobe, and a context that
\* is not preempted for ever makes its next step.

ReaderStep(r) ==
    \/ ReadUpdate(r)
    \/ ReadWait(r)
    \/ ReadLoFirst(r)
    \/ ReadHi(r)
    \/ ReadLoAgain(r)

NextRead ==
    \/ CountTick
    \/ HwLatch
    \/ \E r \in Readers : ReadCall(r)
    \/ \E r \in Readers : ReaderStep(r)
    \/ \E r \in Readers : ReadReturn(r)

SpecRead ==
    /\ InitCount
    /\ [][NextRead]_vars
    /\ WF_vars(HwLatch)
    /\ \A r \in Readers : WF_vars(ReaderStep(r))

\* The steps of read_count in the order of the code.
ReadAfter(pc) ==
    CASE pc = "idle"     -> {"update"}
      [] pc = "update"   -> {"wait"}
      [] pc = "wait"     -> {"lo_first"}
      [] pc = "lo_first" -> {"hi"}
      [] pc = "hi"       -> {"lo_again"}
      [] pc = "lo_again" -> {"hi", "done"}
      [] OTHER           -> {"idle"}

\* C28: read_count cannot fail and returns as soon as two consecutive reads
\* of the low half agree.  It requests one update, waits for value_valid and
\* reads low, high, low; a pass whose two low reads agree returns the high
\* and the low half it read, a pass whose low reads differ is followed by
\* another pass that takes the last low read as its first and requests no
\* new update; a call that no other call of read_count overlaps returns after
\* one pass; and every call returns.
C28_ReadCountTerminates ==
    /\ [][\A r \in Readers :
            rd'[r].pc # rd[r].pc =>
               /\ rd'[r].pc \in ReadAfter(rd[r].pc)
               /\ (update_req' /\ ~value_valid') \/ rd[r].pc # "update"
               /\ (rd[r].pc \notin {"update", "idle"} /\ \A q \in Readers \ {r} : rd'[q] = rd[q])
                     => UNCHANGED <<update_req, value_valid, unit_value>>
               /\ rd[r].pc = "wait" => value_valid
               /\ rd[r].pc = "lo_first" => rd'[r].lo_prev = unit_value.lo
               /\ rd[r].pc = "hi" => rd'[r].hi = unit_value.hi /\ rd'[r].lo = rd[r].lo_prev
               /\ rd[r].pc = "lo_again" =>
                     /\ rd'[r].lo_prev = unit_value.lo
                     /\ (rd'[r].pc = "done") = (rd[r].lo = unit_value.lo)
                     /\ rd'[r].pc = "done" => rd'[r].result = Join(rd[r].hi, rd[r].lo)]_vars
    /\ [](\A r \in Readers :
            rd[r].passes > 1 => \E q \in Readers \ {r} : rd[q].calls > 0)
    /\ \A r \in Readers : (rd[r].pc = "update") ~> (rd[r].pc = "done")

\* A call returned after a second pass: another context latched the counter,
\* which had ticked, between the two low reads of its first pass.
C28_ReturnedAfterRetry ==
    \E r \in Readers :
        /\ rd[r].pc = "done" /\ rd[r].passes = 2
        /\ rd[r].result = Join(unit_value.hi, unit_value.lo)
        /\ nticks > 0

\* ------------------------------------------------ claims: a rejected duration

\* C29: when load_value returns InvalidTimeout the comparator is as the call
\* found it: the period, target, mode and enable registers hold the values
\* they had before the call, and the call wrote no register, the commit
\* strobe included.
C29_InvalidTimeoutLeavesComparator ==
    (last.op = "load_value" /\ last.result = "InvalidTimeout")
        => /\ last.writes = <<>>
           /\ conf = last.before.cf
           /\ target_conf = last.before.tc
           /\ trgt = last.before.tg

\* A running periodic alarm was handed a duration that does not fit its
\* period register, and the call returned InvalidTimeout.
C29_RejectedWhileRunning ==
    /\ last.op = "load_value"
    /\ last.result = "InvalidTimeout"
    /\ last.running
    /\ last.mode = "Period"
    /\ ~Leq(last.ticks, PERIOD_MASK(chip))

\* C30: the conversion of a duration to ticks does not wrap. A duration
\* whose exact tick count (microseconds times ticks per microsecond) exceeds
\* the mask of the mode, or 2^64 - 1, makes load_value return InvalidTimeout,
\* and a Target-mode call never programs counter + ticks modulo 2^64.
C30_ConversionDoesNotWrap ==
    (last.op = "load_value")
        => LET prod == MulU64(last.arg, TicksPerUs(chip))
           IN  /\ (prod.overflow \/ ~Leq(prod.value, ModeMask(last.mode)))
                      => last.result = "InvalidTimeout"
               /\ (last.kind = "target") => ~AddU64(last.v, last.ticks).overflow

\* ------------------------------------------------ an alarm and its unit

\* The units of the chip: the esp32s2 has unit 0 only.
Units == IF chip = "wide" THEN {0} ELSE {0, 1}

\* The counter of a unit.
UnitCount(u) == IF u = 0 THEN count ELSE count1

\* The unit a comparator compares with: TARGETx_CONF.timer_unit_sel, unit 0
\* at reset. The esp32s2 has no such field and one unit.
CompUnit(ch) ==
    IF chip = "wide" THEN 0
    ELSE IF target_conf[ch].timer_unit_sel THEN 1 ELSE 0

\* The comparator has an alarm.
Paired(ch) == alarm_unit[ch] # {}

\* The unit of the alarm of a comparator that has one.
UnitOf(ch) == CHOOSE u \in alarm_unit[ch] : TRUE

\* Alarm::new: the comparator and the unit borrowed from the FrozenUnit are
\* stored in the Alarm; no register is written.
Alarm_new(ch, u) ==
    /\ ~halted
    /\ ~Paired(ch)
    /\ u \in Units
    /\ alarm_unit' = [alarm_unit EXCEPT ![ch] = {u}]
    /\ UNCHANGED <<queueVars, radioVars, hwVars, apiVars, cntVars, count1>>
    /\ UNCHANGED <<queueVars, radioVars, confVars, waitVars, lockVars, frzVars, fireVars, irqVars, commitVars>>

\* Unit 1 counts; the units are enabled and stalled independently.
Unit1Tick ==
    /\ ~halted
    /\ chip # "wide"
    /\ nticks < MaxTicks
    /\ count1' = NextCount(count1)
    /\ nticks' = nticks + 1
    /\ UNCHANGED <<queueVars, radioVars, hwVars, last, nops, halted, cntVars, alarm_unit>>
    /\ UNCHANGED <<queueVars, radioVars, confVars, waitVars, lockVars, frzVars, fireVars, irqVars, commitVars>>

\* Alarm::load_value of an alarm: the counter read is that of self.unit.
AlarmLoadValue(ch, us) ==
    /\ CanCall
    /\ Paired(ch)
    /\ LET cnt == UnitCount(UnitOf(ch))
           o   == load_value(Regs, ch, us, cnt)
       IN  /\ Commit(o.R,
                     [NoCall EXCEPT !.op = "load_value", !.ch = ch, !.arg = us,
                                    !.mode = mode(Regs, ch), !.result = o.result,
                                    !.has_ticks = o.has_ticks, !.ticks = o.ticks,
                                    !.has_prog = o.has_prog,
                                    !.programmed = o.programmed, !.kind = o.kind,
                                    !.v = cnt,
                                    !.running = is_running(Regs, ch)])
           /\ halted' = (o.result = "Panic")

NextPair ==
    \/ Tick
    \/ Unit1Tick
    \/ \E ch \in Alarms, u \in {0, 1} : Alarm_new(ch, u)
    \/ \E ch \in Alarms : Paired(ch) /\ Start(ch)
    \/ \E ch \in Alarms : Paired(ch) /\ Stop(ch)
    \/ \E ch \in Alarms, r \in BOOLEAN : Paired(ch) /\ EnableAutoReload(ch, r)
    \/ \E ch \in Alarms, us \in Durations : AlarmLoadValue(ch, us)

SpecPair == Init /\ [][NextPair]_vars

\* C31: the comparator of an alarm compares with the unit the alarm reads:
\* from Alarm::new on and after every alarm operation, the unit selection of
\* the comparator is the unit of the alarm.
C31_ComparatorFollowsAlarmUnit ==
    \A ch \in Alarms : Paired(ch) => CompUnit(ch) = UnitOf(ch)

\* ------------------------------------------------ the interrupt state of a critical section

\* The interrupt levels a core runs at outside critical sections: unmasked, or
\* masked already (an interrupt handler, an enclosing interrupt::free).
BaseLevels == {0, MaskedLevel}

\* The core is in acquire() or release(), or holds a token.
InSection(c) == Inside(c) \/ cs[c].pc # "idle"

\* Outside every critical section the core changes its interrupt level.
SetLevel(c, level) ==
    /\ ~InSection(c)
    /\ cs[c].ps # level
    /\ cs' = [cs EXCEPT ![c].ps = level, ![c].base = level]
    /\ UNCHANGED <<queueVars, radioVars, hwVars, apiVars, cntVars, owner>>
    /\ UNCHANGED <<queueVars, radioVars, confVars, waitVars, frzVars, fireVars, irqVars, commitVars, pairVars>>

NextRestore ==
    \/ \E c \in Cores, level \in BaseLevels : SetLevel(c, level)
    \/ \E c \in Cores : Acquire(c)
    \/ \E c \in Cores : TryLock(c)
    \/ \E c \in Cores : LoadOwner(c)
    \/ \E c \in Cores : SpinLock(c)
    \/ \E c \in Cores : Release(c)
    \/ \E c \in Cores : RestorePs(c)

SpecRestore == InitLockUnit /\ [][NextRestore]_vars

\* A core releases a token of a nested section.
NestedRelease(c) == Len(cs[c].held) > 1 /\ Len(cs'[c].held) < Len(cs[c].held)

\* C32: a critical section restores the interrupt state its acquire captured.
\* From the first instruction of acquire() to the last of the outermost
\* release() the interrupts of the core are masked, the nested sections
\* included; a nested release changes neither the interrupt level nor the
\* lock; and once the outermost release has returned the interrupt level is
\* the one the core had before the outermost acquire.
C32_InterruptStateRestored ==
    /\ [](\A c \in Cores :
            /\ InSection(c) => cs[c].ps = MaskedLevel
            /\ ~InSection(c) => cs[c].ps = cs[c].base)
    /\ [][\A c \in Cores :
            NestedRelease(c) => (cs'[c].ps = cs[c].ps /\ owner' = owner)]_vars

\* A core that ran with its interrupts unmasked has left a critical section
\* with a nested one inside, while the other core, whose interrupts were
\* masked before, has left one too.
C32_BothCoresRestored ==
    \E c, d \in Cores :
        /\ c # d
        /\ ~InSection(c) /\ cs[c].released = "unlocked" /\ cs[c].kind = "Reentry"
        /\ cs[c].base = 0
        /\ ~InSection(d) /\ cs[d].released = "unlocked" /\ cs[d].base = MaskedLevel

\* ------------------------------------------------ progress of the spin lock

\* The core is in ReentrantMutex::lock and has not got the lock yet.
Waiting(c) == cs[c].pc \in {"try_lock", "load", "spin"}

\* Both cores keep executing: a core in acquire() or release() makes its next
\* step, and a spinning core, whose loop retries the compare-exchange without
\* a pause, gets the lock if the lock is free again and again.
SpecSpin ==
    /\ InitLockUnit
    /\ [][NextLockUnit]_vars
    /\ \A c \in Cores :
          /\ WF_vars(TryLock(c))
          /\ WF_vars(LoadOwner(c))
          /\ SF_vars(SpinLock(c))
          /\ WF_vars(RestorePs(c))

MaxRadioCalls == 4

\* analog::adc::try_claim_adc2: fails if ADC2 is claimed already
try_claim_adc2(a) ==
    IF a = "free" THEN [ok |-> TRUE, adc2 |-> "radio"] ELSE [ok |-> FALSE, adc2 |-> a]

\* analog::adc::release_adc2
release_adc2 == "free"

\* radio::init: the result, and ADC2 and the radio hardware after it
init(a, up) ==
    LET claim == try_claim_adc2(a)
    IN  IF ~claim.ok
        THEN [result |-> "Adc2IsUsed", adc2 |-> a, up |-> up]
        ELSE IF ~scheduler
        THEN [result |-> "SchedulerNotInitialized", adc2 |-> claim.adc2, up |-> up]
        ELSE IF ~cpu_clock_ok
        THEN [result |-> "WrongClockConfig", adc2 |-> claim.adc2, up |-> up]
        ELSE [result |-> "Ok", adc2 |-> claim.adc2, up |-> TRUE]

\* radio::deinit
deinit == [adc2 |-> release_adc2, up |-> FALSE]

\* RadioRefGuard::new: prev == 0
first_user(prev) == prev = 0

\* A new that keeps the incremented count when init() fails.
not_rolled_back(prev) == prev + 1

\* RadioRefGuard::new: rc.set(prev) after a failed init()
rolled_back(prev) == prev

\* A drop that runs deinit() whatever the count was.
any_user(prev) == TRUE

\* Drop for RadioRefGuard: prev == 1
last_user(prev) == prev = 1

\* What a call did: the count it found and left, the guards alive after it,
\* the result of the init() it ran ("none" if it ran none), whether it ran
\* deinit(), and its own result.
RadioCall(op, prev, cnt, alive, i, d, result) ==
    [op |-> op, prev |-> prev, count |-> cnt, alive |-> alive, init |-> i,
     deinit |-> d, result |-> result]

\* RadioRefGuard::new
RadioRefGuard_new ==
    /\ Len(radio_log) < MaxRadioCalls
    /\ LET prev   == RADIO_REFCOUNT
           r      == IF first_user(prev) THEN init(adc2, radio_up)
                     ELSE [result |-> "none", adc2 |-> adc2, up |-> radio_up]
           failed == r.result \notin {"none", "Ok"}
           cnt    == IF failed THEN rolled_back(prev) ELSE prev + 1
           alive  == IF failed THEN guards ELSE guards + 1
       IN  /\ RADIO_REFCOUNT' = cnt
           /\ guards' = alive
           /\ adc2' = r.adc2
           /\ radio_up' = r.up
           /\ radio_log' = Append(radio_log,
                  RadioCall("new", prev, cnt, alive, r.result, FALSE,
                            IF failed THEN r.result ELSE "Ok"))
    /\ UNCHANGED <<queueVars, scheduler, cpu_clock_ok>>
    /\ UNCHANGED <<queueVars, hwVars, apiVars, cntVars>>
    /\ UNCHANGED <<queueVars, confVars, waitVars, lockVars, frzVars, fireVars, irqVars, commitVars, pairVars>>

\* Drop for RadioRefGuard: a live guard is dropped. The count it finds is at
\* least 1 while the count is the number of live guards.
RadioRefGuard_drop ==
    /\ Len(radio_log) < MaxRadioCalls
    /\ guards > 0
    /\ LET prev == RADIO_REFCOUNT
           d    == last_user(prev)
       IN  /\ RADIO_REFCOUNT' = prev - 1
           /\ guards' = guards - 1
           /\ adc2' = IF d THEN deinit.adc2 ELSE adc2
           /\ radio_up' = IF d THEN deinit.up ELSE radio_up
           /\ radio_log' = Append(radio_log,
                  RadioCall("drop", prev, prev - 1, guards - 1, "none", d, "Ok"))
    /\ UNCHANGED <<queueVars, scheduler, cpu_clock_ok>>
    /\ UNCHANGED <<queueVars, hwVars, apiVars, cntVars>>
    /\ UNCHANGED <<queueVars, confVars, waitVars, lockVars, frzVars, fireVars, irqVars, commitVars, pairVars>>

\* What the radio calls leave alone.
RadioEnv ==
    /\ UNCHANGED <<queueVars, RADIO_REFCOUNT, radio_up, guards, radio_log>>
    /\ UNCHANGED <<queueVars, hwVars, apiVars, cntVars>>
    /\ UNCHANGED <<queueVars, confVars, waitVars, lockVars, frzVars, fireVars, irqVars, commitVars, pairVars>>

\* The scheduler is started.
SchedulerStart ==
    /\ ~scheduler
    /\ scheduler' = TRUE
    /\ UNCHANGED <<queueVars, adc2, cpu_clock_ok>>
    /\ RadioEnv

\* The CPU clock is configured, at or above 80 MHz or below.
SetCpuClock(ok) ==
    /\ cpu_clock_ok # ok
    /\ cpu_clock_ok' = ok
    /\ UNCHANGED <<queueVars, adc2, scheduler>>
    /\ RadioEnv

\* The ADC driver claims ADC2.
AdcClaim ==
    /\ try_claim_adc2(adc2).ok
    /\ adc2' = "adc"
    /\ UNCHANGED <<queueVars, scheduler, cpu_clock_ok>>
    /\ RadioEnv

\* The ADC driver gives ADC2 back.
AdcRelease ==
    /\ adc2 = "adc"
    /\ adc2' = release_adc2
    /\ UNCHANGED <<queueVars, scheduler, cpu_clock_ok>>
    /\ RadioEnv

NextRadio ==
    \/ RadioRefGuard_new
    \/ RadioRefGuard_drop
    \/ SchedulerStart
    \/ \E ok \in BOOLEAN : SetCpuClock(ok)
    \/ AdcClaim
    \/ AdcRelease

SpecRadio == Init /\ [][NextRadio]_vars

\* The successful init() calls and the deinit() calls, in the order made.
HardwareCalls == SelectSeq(radio_log, LAMBDA e : e.init = "Ok" \/ e.deinit)

\* C34: init() runs exactly when a guard is created while the count is 0 and
\* deinit() exactly when a drop takes the count from 1 to 0; the count is the
\* number of live guards; init and deinit alternate, init first; and the
\* radio is initialised exactly while a guard is alive.
C34_RefCountTracksGuards ==
    /\ RADIO_REFCOUNT = guards
    /\ radio_up <=> guards > 0
    /\ \A i \in DOMAIN radio_log :
          LET e == radio_log[i]
          IN  /\ (e.op = "new" /\ e.result = "Ok") => ((e.init = "Ok") <=> (e.prev = 0))
              /\ e.op = "drop" => (e.deinit <=> (e.prev = 1 /\ e.count = 0))
              /\ e.count = e.alive
    /\ \A i \in DOMAIN HardwareCalls :
          IF i % 2 = 1 THEN HardwareCalls[i].init = "Ok" ELSE HardwareCalls[i].deinit

\* Two guards were created and dropped: the first new ran init(), the second
\* did not, the first drop ran no deinit() and the second did.
C34_TwoGuardsCreatedAndDropped ==
    /\ Len(radio_log) = 4
    /\ radio_log[1].op = "new" /\ radio_log[1].init = "Ok"
    /\ radio_log[2].op = "new" /\ radio_log[2].init = "none" /\ radio_log[2].count = 2
    /\ radio_log[3].op = "drop" /\ ~radio_log[3].deinit
    /\ radio_log[4].op = "drop" /\ radio_log[4].deinit

\* The call was a RadioRefGuard::new whose init() failed.
FailedNew(e) == e.op = "new" /\ e.init \notin {"none", "Ok"}

\* C35: when init() fails inside RadioRefGuard::new the count is put back to
\* the value the call found, the call returns the error and no guard, and the
\* next RadioRefGuard::new runs init() again.
C35_FailedInitRollsBack ==
    \A i \in DOMAIN radio_log :
        FailedNew(radio_log[i]) =>
            /\ radio_log[i].count = radio_log[i].prev
            /\ radio_log[i].result = radio_log[i].init
            /\ radio_log[i].alive = (IF i = 1 THEN 0 ELSE radio_log[i - 1].alive)
            /\ \A j \in DOMAIN radio_log :
                  (j > i /\ radio_log[j].op = "new"
                     /\ \A k \in (i + 1) .. (j - 1) : radio_log[k].op # "new")
                  => radio_log[j].init # "none"

\* init() failed for want of a scheduler, the count went back to 0, and the
\* next RadioRefGuard::new ran init() once more.
C35_InitAttemptedAgain ==
    /\ Len(radio_log) >= 2
    /\ radio_log[1].init = "SchedulerNotInitialized"
    /\ radio_log[2].op = "new" /\ radio_log[2].init # "none" /\ radio_log[2].prev = 0

\* C37: a failed init() leaves no resource claimed. ADC2 is held by the radio
\* only while the radio is initialised, so an init() that failed after
\* claiming ADC2 has released it, and no later init() is rejected with
\* Adc2IsUsed on account of the failed one.
C37_FailedInitReleasesAdc2 ==
    /\ adc2 = "radio" => radio_up
    /\ \A i \in DOMAIN radio_log :
          (i > 1 /\ radio_log[i].init = "Adc2IsUsed" /\ FailedNew(radio_log[i - 1]))
              => radio_log[i - 1].init = "Adc2IsUsed"

\* ------------------------------------------------------------ the queue of blinky.rs
\*
\* inner() calls enqueue() and dequeue() in turn on a queue of its own, in
\* one context.  Each call is followed statement by statement.

\* u8 as i8
as_i8(x) == IF x >= U8 \div 2 THEN x - U8 ELSE x

\* A u8 addition that stops at 255.
saturating_add(a, b) == IF a + b >= U8 THEN U8 - 1 ELSE a + b

\* u8::wrapping_add
wrapping_add(a, b) == (a + b) % U8

\* i8::wrapping_sub
wrapping_sub(a, b) == as_i8((a - b + U8) % U8)

\* The position an operation advances.
PosOf(op) == IF op = "enqueue" THEN enqueue_pos ELSE dequeue_pos

\* The sequence number a cell must have for the operation at pos: pos for
\* enqueue, pos + 1 for dequeue.
Expected(op, pos) == IF op = "enqueue" THEN pos ELSE wrapping_add(pos, 1)

\* The sequence number the operation leaves in the cell: pos + 1 for enqueue,
\* pos + MASK + 1 for dequeue.
Stored(op, pos) ==
    IF op = "enqueue" THEN wrapping_add(pos, 1)
    ELSE wrapping_add(wrapping_add(pos, MASK), 1)

\* The call inner() makes after op has returned true.
Other(op) == IF op = "enqueue" THEN "dequeue" ELSE "enqueue"

QueueFrame ==
    /\ UNCHANGED <<hwVars, apiVars, cntVars>>
    /\ UNCHANGED <<confVars, waitVars, lockVars, frzVars, fireVars, irqVars, commitVars, pairVars,
                   radioVars>>

\* pos = self.enqueue_pos.load(Relaxed) / self.dequeue_pos.load(Relaxed)
QueueLoadPos ==
    /\ inner.pc = "load_pos"
    /\ inner' = [inner EXCEPT !.pc = "load_seq", !.pos = PosOf(inner.op)]
    /\ UNCHANGED <<buffer, enqueue_pos, dequeue_pos>>
    /\ QueueFrame

\* cell = &self.buffer[(pos & MASK) as usize]; seq = cell.load(Acquire)
QueueLoadSeq ==
    /\ inner.pc = "load_seq"
    /\ inner' = [inner EXCEPT !.pc = "match", !.seq = buffer[inner.pos % N]]
    /\ UNCHANGED <<buffer, enqueue_pos, dequeue_pos>>
    /\ QueueFrame

\* match (seq as i8).wrapping_sub(..): 0 goes on to the compare-exchange, a
\* negative difference returns false, which ends the loop of inner() and
\* reaches the panic of main, a positive one loads the position again.
QueueMatch ==
    /\ inner.pc = "match"
    /\ LET dif == wrapping_sub(as_i8(inner.seq), as_i8(Expected(inner.op, inner.pos)))
       IN  inner' = IF dif = 0 THEN [inner EXCEPT !.pc = "cas"]
                    ELSE IF dif < 0 THEN [inner EXCEPT !.pc = "panic", !.returned = "false"]
                    ELSE [inner EXCEPT !.pc = "load_pos"]
    /\ UNCHANGED <<buffer, enqueue_pos, dequeue_pos>>
    /\ QueueFrame

\* compare_exchange_weak(pos, pos.wrapping_add(1)): it fails if the position
\* has moved, and it may fail for no reason; the loop then starts over.
QueueCas(spurious) ==
    /\ inner.pc = "cas"
    /\ IF PosOf(inner.op) = inner.pos /\ ~spurious
       THEN /\ inner' = [inner EXCEPT !.pc = "store"]
            /\ IF inner.op = "enqueue"
               THEN enqueue_pos' = wrapping_add(inner.pos, 1) /\ UNCHANGED dequeue_pos
               ELSE dequeue_pos' = wrapping_add(inner.pos, 1) /\ UNCHANGED enqueue_pos
       ELSE /\ inner' = [inner EXCEPT !.pc = "load_seq"]
            /\ UNCHANGED <<enqueue_pos, dequeue_pos>>
    /\ UNCHANGED buffer
    /\ QueueFrame

\* cell.store(.., Release); true. inner() goes on with the other call.
QueueStore ==
    /\ inner.pc = "store"
    /\ buffer' = [buffer EXCEPT ![inner.pos % N] = Stored(inner.op, inner.pos)]
    /\ inner' = [inner EXCEPT !.pc = "load_pos", !.op = Other(inner.op), !.returned = "true"]
    /\ UNCHANGED <<enqueue_pos, dequeue_pos>>
    /\ QueueFrame

NextQueue ==
    \/ QueueLoadPos
    \/ QueueLoadSeq
    \/ QueueMatch
    \/ \E spurious \in BOOLEAN : QueueCas(spurious)
    \/ QueueStore

\* The context keeps running, and a compare-exchange that may fail for no
\* reason does not fail every time.
SpecQueue ==
    /\ Init
    /\ [][NextQueue]_vars
    /\ WF_vars(QueueLoadPos) /\ WF_vars(QueueLoadSeq) /\ WF_vars(QueueMatch)
    /\ SF_vars(QueueCas(FALSE)) /\ WF_vars(QueueStore)

\* C36: from a fresh queue, in one context, the alternating enqueue() and
\* dequeue() of inner() return true on every iteration, the iterations in
\* which the 8-bit positions and sequence numbers go from 255 to 0 included:
\* no call returns false, so inner() never leaves its loop, every call
\* returns, and the positions keep wrapping.
C36_AlternationNeverFails ==
    /\ [](inner.pc # "panic" /\ inner.returned # "false")
    /\ [](wrapping_sub(as_i8(enqueue_pos), as_i8(dequeue_pos)) \in {0, 1})
    /\ [][inner'.op # inner.op => inner'.returned = "true"]_vars
    /\ []<>(inner.op = "enqueue" /\ inner.pc = "load_pos")
    /\ []<>(inner.op = "dequeue" /\ inner.pc = "load_pos")
    /\ []<>(enqueue_pos = U8 - 1) /\ []<>(enqueue_pos = 0)

\* The enqueue at position 255 has returned true: the position has wrapped
\* to 0 and the cell holds the wrapped sequence number 0; the dequeue at
\* position 255 is next.
C36_PositionsWrapped ==
    /\ inner.op = "dequeue" /\ inner.pc = "load_pos" /\ inner.returned = "true"
    /\ enqueue_pos = 0 /\ dequeue_pos = U8 - 1
    /\ buffer[MASK] = 0

====
